---- MODULE Spec2Model ----
(***************************************************************************)
(* A model of the geometric pipeline of the image-to-plotter vectorizer:   *)
(* the path optimizer (PathOptimizer), the centerline stitcher             *)
(* (VectorizationEngine.traceCenterlines), the hatch generators            *)
(* (AdvancedHatcher), Douglas-Peucker simplification and Bezier fitting    *)
(* (CurveFitter).                                                          *)
(*                                                                         *)
(* Each subsystem is a pure transform of its input; it is modelled by      *)
(* operators that follow the source statement by statement, and by a       *)
(* specification whose initial states draw the input from a bounded set    *)
(* and whose actions apply the transform.  The variables of the other      *)
(* subsystems stay at their idle values in that specification.             *)
(*                                                                         *)
(* Numbers.  The source computes in IEEE doubles.  The optimizer's inputs  *)
(* are drawn from points whose mutual distances are integers, so           *)
(* Math.sqrt is exact on them.  The hatcher and the curve fitter compute   *)
(* with fractions: these are kept in fixed point, in units of 1 / Scale,   *)
(* rounded down after every multiplication, division and square root.      *)
(***************************************************************************)
EXTENDS Integers, Sequences, FiniteSets, TLC

VARIABLES
    \* ---- PathOptimizer.optimizePaths ----
    paths,              \* the caller's list of polylines
    options,            \* enablePathMerging, enable2Opt, mergeThreshold, maxIterations
    originalDistance,   \* pen travel of the input list
    optimizedPaths,     \* the working list, pass after pass
    result,             \* the OptimizationResult returned
    again,              \* the result of optimizePaths(result.paths, options)
    opc,                \* position in optimizePaths
    \* ---- VectorizationEngine.traceCenterlines ----
    canvas,             \* width, height and the RGB data of the raster
    threshold,          \* the black threshold
    proximity,          \* the stitching proximity
    segmentsByRow,      \* per row, the horizontal runs with their used flags
    seedPos,            \* the stitching loop's position: the next (row, run) to visit
    allPaths,           \* the paths kept, each a sequence of runs
    droppedPaths,       \* history: the paths built and not kept (fewer than 3 runs)
    centerlines,        \* the point paths returned
    cpc,                \* position in traceCenterlines
    \* ---- AdvancedHatcher.generateHatching ----
    mask,               \* cols, rows and the data of the mask (an OpenCV Mat)
    intensity,          \* 0..1, in units of 1 / Scale
    style,              \* the HatchingStyle
    baseSpacing,        \* the hatch spacing, in pixels
    angle,              \* the hatch angle, in degrees
    rng,                \* the state of the generator behind Math.random
    hatchPaths,         \* the paths returned
    secondPaths,        \* the paths returned by a second call with the same arguments
    hpc,                \* position in generateHatching
    \* ---- douglasPeucker ----
    dpPoints,           \* the polyline given
    epsilon,            \* the tolerance, a fraction num / den
    simplified,         \* douglasPeucker(points, epsilon)
    resimplified,       \* douglasPeucker of that, with the same epsilon
    dpc,                \* position of the caller
    \* ---- CurveFitter.fitCurves ----
    fitPoints,          \* the polyline given, in fixed point
    tolerance,          \* the tolerance, in fixed point
    sampled,            \* whether the polyline was sampled from a cubic
    curves,             \* the curves pushed so far
    fi,                 \* the index i into the polyline
    bestFit,            \* the value of findBestCurveFit for the index i
    fpc,                \* position in fitCurves
    \* ---- VectorizationEngine.process and its extractors ----
    mode,               \* the VectorizationMode
    numColors,          \* options.numColors
    hatchingStyle,      \* advancedOptions.hatchingStyle
    ip,                 \* the index of the next statement of the extractor
    counter,            \* per loop of the extractor, its counter
    serial,             \* the number of buffers allocated so far
    refs,               \* per local, the buffer it is bound to (0: none)
    live,               \* the buffers allocated and not released
    pending,            \* an exception is pending in a finally block
    outcome,            \* "running", "returned" or "threw"
    \* ---- VectorizationEngine.generateAdvancedHatching ----
    gray,               \* the raster in gray: cols, rows and data
    hatchOptions,       \* numColors, hatchSpacing, hatchAngle and the hatching style
    quantized,          \* the raster quantized to the levels
    level,              \* the counter of the for (level) loop
    levelMasks,         \* history: the masks passed to the hatcher, level by level
    levelIntensities,   \* history: the intensities passed to the hatcher
    levelPaths,         \* the paths pushed so far, in fixed point
    levelRng,           \* the state of the generator behind Math.random
    lpc,                \* position in generateAdvancedHatching
    \* ---- PathOptimizer.apply2Opt, statement by statement ----
    toPaths,            \* the list given
    toMaxIterations,    \* the cap on the passes
    toOrder,            \* the order of the indices (1-based)
    bestDistance,       \* the travel of the best order found
    toImproved,         \* the flag of the while loop
    toIteration,        \* the number of passes made
    pair,               \* the counters i and j of the for loops (0-based)
    reversals,          \* history: the number of reversals accepted
    toResult,           \* the list returned
    tpc,                \* position in apply2Opt
    \* ---- AdvancedHatcher.varyLineLength ----
    runPath,            \* a run of a hatch line, as generateParallelHatching returns it
    lengthFactor,       \* 0.8 + Math.random() * 0.4, in fixed point
    variedPath,         \* varyLineLength(runPath, lengthFactor)
    vpc,                \* position of the caller
    \* ---- VectorizationEngine.processWithCurves ----
    curvePaths,         \* the paths process returned
    advancedOptions,    \* enableCurveFitting, enableArcConversion, curveTolerance
    pathNo,             \* the position of the for (path of paths) loop (1-based)
    emitted,            \* history: per path, the segments pushed for it
    allCurves,          \* the curve segments collected
    wpc,                \* position in processWithCurves
    \* ---- the ImageProcessor component ----
    imageLoaded,        \* image is not null
    isOpenCVReady,      \* the state of that name
    isProcessing,       \* the state of that name
    timer,              \* the callback deferred with setTimeout: "none", "preview", "gcode"
    callback,           \* the position of the deferred callback that runs
    task,             \* whose callback runs: "none", "preview", "gcode"
    clicks,             \* history: the clicks on the two buttons
    uncaught,           \* history: the exceptions that left a callback
    downloads           \* history: the G-code files downloaded

optVars == <<paths, options, originalDistance, optimizedPaths, result, again, opc>>

clVars == <<canvas, threshold, proximity, segmentsByRow, seedPos, allPaths,
            droppedPaths, centerlines, cpc>>

hatchVars == <<mask, intensity, style, baseSpacing, angle, rng, hatchPaths, secondPaths,
              hpc>>

dpVars == <<dpPoints, epsilon, simplified, resimplified, dpc>>

fitVars == <<fitPoints, tolerance, sampled, curves, fi, bestFit, fpc>>

procVars == <<mode, numColors, hatchingStyle, ip, counter, serial, refs, live,
              pending, outcome>>

lvVars == <<gray, hatchOptions, quantized, level, levelMasks, levelIntensities,
            levelPaths, levelRng, lpc>>

toVars == <<toPaths, toMaxIterations, toOrder, bestDistance, toImproved, toIteration,
            pair, reversals, toResult, tpc>>

vlVars == <<runPath, lengthFactor, variedPath, vpc>>

pwcVars == <<curvePaths, advancedOptions, pathNo, emitted, allCurves, wpc>>

ipVars == <<imageLoaded, isOpenCVReady, isProcessing, timer, callback, task,
            clicks, uncaught, downloads>>

vars == <<optVars, clVars, hatchVars, dpVars, fitVars, procVars, lvVars, toVars, vlVars, pwcVars, ipVars>>

(***************************************************************************)
(* Arithmetic helpers                                                      *)
(***************************************************************************)
Abs(v) == IF v < 0 THEN -v ELSE v

Min(a, b) == IF a < b THEN a ELSE b

Max(a, b) == IF a > b THEN a ELSE b

\* The largest r in lo..hi with r * r <= n, by bisection.
RECURSIVE SqrtFrom(_, _, _)
SqrtFrom(n, lo, hi) ==
    IF lo >= hi THEN lo
    ELSE LET mid == (lo + hi + 1) \div 2
         IN  IF mid * mid <= n THEN SqrtFrom(n, mid, hi) ELSE SqrtFrom(n, lo, mid - 1)

\* Math.sqrt on a perfect square (the floor of the root otherwise); the root
\* of a 32-bit integer is at most 46340.
ISqrt(n) == IF n < 2 THEN n ELSE SqrtFrom(n, 1, Min(n \div 2, 46340))

\* Fixed point: a fraction v is held as the integer v * Scale, rounded down.
Scale == 1000

mulS(a, b) == (a * b) \div Scale

divS(a, b) == (a * Scale) \div b

\* Math.sqrt of a fixed-point value.
sqrtS(a) == ISqrt(a * Scale)

\* Math.round and Math.floor of a fixed-point value, as integers.
roundS(a) == (2 * a + Scale) \div (2 * Scale)

floorS(a) == a \div Scale

\* Math.ceil of a fixed-point value, as an integer.
ceilS(a) == -((-a) \div Scale)

\* Math.cos and Math.sin of an angle in degrees (a multiple of 45), in
\* thousandths, brought to units of 1 / Scale.
cosDeg(a) ==
    LET t == <<1000, 707, 0, -707, -1000, -707, 0, 707>>
    IN  (t[((a % 360) \div 45) + 1] * Scale) \div 1000

sinDeg(a) == cosDeg(a + 270)

Pt(px, py) == [x |-> px, y |-> py]

Reverse(s) == [k \in 1..Len(s) |-> s[Len(s) + 1 - k]]

Last(s) == s[Len(s)]

(***************************************************************************)
(* PathOptimizer                                                           *)
(***************************************************************************)

\* distance(p1, p2): Euclidean length.
distance(p1, p2) ==
    LET dx == p2.x - p1.x
        dy == p2.y - p1.y
    IN  ISqrt(dx * dx + dy * dy)

\* The travel between two consecutive paths: skipped when either is empty.
hop(currentPath, nextPath) ==
    IF Len(currentPath) > 0 /\ Len(nextPath) > 0
    THEN distance(Last(currentPath), nextPath[1])
    ELSE 0

RECURSIVE travelFrom(_, _)
travelFrom(ps, i) ==
    IF i >= Len(ps) THEN 0 ELSE hop(ps[i], ps[i + 1]) + travelFrom(ps, i + 1)

\* calculateTotalTravelDistance(paths)
calculateTotalTravelDistance(ps) == travelFrom(ps, 1)

\* calculatePathOrderDistance(paths, order): order holds 1-based indices here.
calculatePathOrderDistance(ps, order) ==
    travelFrom([k \in 1..Len(order) |-> ps[order[k]]], 1)

NoMerge == [ok |-> FALSE, path |-> <<>>]

\* A variant that joins the two paths as they are, whichever ends are close.
tryMergePaths_NoReversal(path1, path2, thr) ==
    IF Len(path1) = 0 \/ Len(path2) = 0 THEN NoMerge
    ELSE LET dists == {distance(e1, e2) : e1 \in {path1[1], Last(path1)},
                                          e2 \in {path2[1], Last(path2)}}
         IN  IF \E d \in dists : d <= thr THEN [ok |-> TRUE, path |-> path1 \o path2]
             ELSE NoMerge

\* tryMergePaths(path1, path2, thr): null is NoMerge.
tryMergePaths(path1, path2, thr) ==
    IF Len(path1) = 0 \/ Len(path2) = 0 THEN NoMerge
    ELSE
      LET p1Start == path1[1]
          p1End   == Last(path1)
          p2Start == path2[1]
          p2End   == Last(path2)
          connections == <<
            [dist |-> distance(p1End, p2Start),   merge |-> path1 \o path2],
            [dist |-> distance(p1End, p2End),     merge |-> path1 \o Reverse(path2)],
            [dist |-> distance(p1Start, p2Start), merge |-> Reverse(path1) \o path2],
            [dist |-> distance(p1Start, p2End),   merge |-> Reverse(path1) \o Reverse(path2)] >>
          \* reduce((min, conn) => conn.dist < min.dist ? conn : min): the first minimum
          bestIdx == CHOOSE k \in 1..4 :
                        /\ \A m \in 1..4 : connections[k].dist <= connections[m].dist
                        /\ \A m \in 1..(k - 1) : connections[m].dist > connections[k].dist
          best == connections[bestIdx]
      IN  IF best.dist <= thr THEN [ok |-> TRUE, path |-> best.merge]
          ELSE NoMerge

\* A variant of the loop that absorbs one path at most, and scans no more.
mergeGrow_Once(ps, currentPath, used, thr) ==
    LET cand == {j \in 1..Len(ps) :
                    j \notin used /\ tryMergePaths(currentPath, ps[j], thr).ok}
    IN  IF cand = {} THEN [path |-> currentPath, used |-> used]
        ELSE LET j == CHOOSE j \in cand : \A m \in cand : j <= m
             IN  [path |-> tryMergePaths(currentPath, ps[j], thr).path,
                  used |-> used \cup {j}]

\* The while (foundMerge) loop of mergePaths: absorb the first unused mergeable
\* path, restart the scan, until a scan absorbs nothing.
RECURSIVE mergeGrow(_, _, _, _)
mergeGrow(ps, currentPath, used, thr) ==
    LET cand == {j \in 1..Len(ps) :
                    j \notin used /\ tryMergePaths(currentPath, ps[j], thr).ok}
    IN  IF cand = {} THEN [path |-> currentPath, used |-> used]
        ELSE LET j == CHOOSE j \in cand : \A m \in cand : j <= m
             IN  mergeGrow(ps, tryMergePaths(currentPath, ps[j], thr).path,
                           used \cup {j}, thr)

\* The for (i) loop of mergePaths.
RECURSIVE mergeFrom(_, _, _, _, _)
mergeFrom(ps, i, used, merged, thr) ==
    IF i > Len(ps) THEN merged
    ELSE IF i \in used THEN mergeFrom(ps, i + 1, used, merged, thr)
    ELSE LET g == mergeGrow(ps, ps[i], used \cup {i}, thr)
         IN  mergeFrom(ps, i + 1, g.used,
                       IF Len(g.path) > 0 THEN Append(merged, g.path) ELSE merged,
                       thr)

\* mergePaths(paths, thr)
mergePaths(ps, thr) ==
    IF Len(ps) <= 1 THEN ps ELSE mergeFrom(ps, 1, {}, <<>>, thr)

\* swap2Opt(order, i, j): reverse order[i..j]; i, j are the source's 0-based indices.
swap2Opt(order, i, j) ==
    [k \in 1..Len(order) |->
        IF i + 1 <= k /\ k <= j + 1 THEN order[(i + 1) + (j + 1) - k] ELSE order[k]]

\* One pass of the for (i) for (j) loops of apply2Opt, from the pair (i, j) on;
\* st = [order, best, improved].
RECURSIVE twoOptPass(_, _, _, _)

\* A variant whose acceptance test is inverted (newDistance > bestDistance).
RECURSIVE twoOptPass_Inverted(_, _, _, _)
twoOptPass_Inverted(ps, st, i, j) ==
    IF ~(i < Len(st.order) - 2) THEN st
    ELSE IF ~(j < Len(st.order)) THEN twoOptPass_Inverted(ps, st, i + 1, i + 2)
    ELSE IF j - i = 1 THEN twoOptPass_Inverted(ps, st, i, j + 1)
    ELSE LET newOrder    == swap2Opt(st.order, i, j)
             newDistance == calculatePathOrderDistance(ps, newOrder)
         IN  IF newDistance > st.best
             THEN twoOptPass_Inverted(ps, [order |-> newOrder, best |-> newDistance,
                                           improved |-> TRUE], i, j + 1)
             ELSE twoOptPass_Inverted(ps, st, i, j + 1)

twoOptPass(ps, st, i, j) ==
    IF ~(i < Len(st.order) - 2) THEN st
    ELSE IF ~(j < Len(st.order)) THEN twoOptPass(ps, st, i + 1, i + 2)
    ELSE IF j - i = 1 THEN twoOptPass(ps, st, i, j + 1)
    ELSE LET newOrder    == swap2Opt(st.order, i, j)
             newDistance == calculatePathOrderDistance(ps, newOrder)
         IN  IF newDistance < st.best
             THEN twoOptPass(ps, [order |-> newOrder, best |-> newDistance,
                                  improved |-> TRUE], i, j + 1)
             ELSE twoOptPass(ps, st, i, j + 1)

\* The while (improved && iteration < maxIterations) loop of apply2Opt.
RECURSIVE twoOptLoop(_, _, _, _)
twoOptLoop(ps, st, iteration, maxIterations) ==
    IF st.improved /\ iteration < maxIterations
    THEN twoOptLoop(ps, twoOptPass(ps, [st EXCEPT !.improved = FALSE], 1, 2),
                    iteration + 1, maxIterations)
    ELSE st

\* apply2Opt(paths, maxIterations)
apply2Opt(ps, maxIterations) ==
    IF Len(ps) < 4 THEN ps
    ELSE LET currentOrder == [k \in 1..Len(ps) |-> k]
             st0 == [order |-> currentOrder,
                     best |-> calculatePathOrderDistance(ps, currentOrder),
                     improved |-> TRUE]
             fin == twoOptLoop(ps, st0, 0, maxIterations)
         IN  [k \in 1..Len(ps) |-> ps[fin.order[k]]]

\* A variant that measures the swapped pair alone, without its neighbours.
calculateTravelBetween_NoContext(path1, path2, prevPath, nextPath) ==
    hop(path1, path2)

\* calculateTravelBetween(path1, path2, prevPath, nextPath); a null prevPath or
\* nextPath is passed as the empty path, which the source treats alike.
calculateTravelBetween(path1, path2, prevPath, nextPath) ==
    hop(prevPath, path1) + hop(path1, path2) + hop(path2, nextPath)

\* One pass of the for (i) loop of greedyImprovement, from i (0-based) on;
\* st = [improved (the list), made (madeImprovement)].
RECURSIVE greedyPass(_, _)
greedyPass(st, i) ==
    LET improved == st.improved
        n == Len(improved)
    IN  IF ~(i < n - 1) THEN st
        ELSE LET prev == IF i > 0 THEN improved[i] ELSE <<>>
                 next == IF i + 2 < n THEN improved[i + 3] ELSE <<>>
                 origD == calculateTravelBetween(improved[i + 1], improved[i + 2], prev, next)
                 newD  == calculateTravelBetween(improved[i + 2], improved[i + 1], prev, next)
                 swapped == [improved EXCEPT ![i + 1] = improved[i + 2],
                                             ![i + 2] = improved[i + 1]]
             IN  IF newD < origD
                 THEN greedyPass([improved |-> swapped, made |-> TRUE], i + 1)
                 ELSE greedyPass(st, i + 1)

\* The while (madeImprovement) loop of greedyImprovement.
RECURSIVE greedyLoop(_)
greedyLoop(st) ==
    IF st.made THEN greedyLoop(greedyPass([st EXCEPT !.made = FALSE], 0)) ELSE st

\* greedyImprovement(paths)
greedyImprovement(ps) ==
    IF Len(ps) <= 2 THEN ps
    ELSE greedyLoop([improved |-> ps, made |-> TRUE]).improved

\* A variant that takes the final distance for the base of the percentage.
improvementOf_OfFinal(orig, final) ==
    IF final > 0 THEN [num |-> (orig - final) * 100, den |-> final]
    ELSE [num |-> 0, den |-> 1]

\* The improvement percentage (original - final) / original * 100, as a fraction.
improvementOf(orig, final) ==
    IF orig > 0 THEN [num |-> (orig - final) * 100, den |-> orig]
    ELSE [num |-> 0, den |-> 1]

\* Steps 1 to 3 of optimizePaths.
step1(ps, opts) ==
    IF opts.enablePathMerging THEN mergePaths(ps, opts.mergeThreshold) ELSE ps

step2(ps, opts) ==
    IF opts.enable2Opt /\ Len(ps) > 2 THEN apply2Opt(ps, opts.maxIterations) ELSE ps

step3(ps) == greedyImprovement(ps)

\* optimizePaths(paths, options)
optimizePaths(ps, opts) ==
    IF Len(ps) = 0 THEN [paths |-> <<>>, totalDistance |-> 0, improvement |-> improvementOf(0, 0)]
    ELSE LET orig  == calculateTotalTravelDistance(ps)
             out   == step3(step2(step1(ps, opts), opts))
             final == calculateTotalTravelDistance(out)
         IN  [paths |-> out, totalDistance |-> final,
              improvement |-> improvementOf(orig, final)]

(***************************************************************************)
(* AdvancedHatcher                                                         *)
(***************************************************************************)

\* A variant that takes every pixel of the canvas for a pixel of the region.
isPointInMask_AnyPixel(point, m) == TRUE

\* isPointInMask(point, mask); the coordinates are integers here, so that
\* Math.floor leaves them as they are.
isPointInMask(point, m) ==
    LET x == point.x
        y == point.y
    IN  IF x < 0 \/ x >= m.cols \/ y < 0 \/ y >= m.rows THEN FALSE
        ELSE m.data[y * m.cols + x] > 0

\* The sampling loop of one hatch line, from step on; st = [path, inRegion,
\* paths]; ln = [startX, startY, endX, endY, steps], the coordinates in fixed point.
RECURSIVE sampleLine(_, _, _, _, _, _)
sampleLine(m, width, height, ln, step, st) ==
    IF ~(step <= ln.steps)
    THEN \* Add final segment if needed
         IF Len(st.path) > 1 THEN Append(st.paths, st.path) ELSE st.paths
    ELSE LET \* t = step / steps; x = Math.round(startX + (endX - startX) * t)
             x == roundS(ln.startX + ((ln.endX - ln.startX) * step) \div ln.steps)
             y == roundS(ln.startY + ((ln.endY - ln.startY) * step) \div ln.steps)
         IN  IF x >= 0 /\ x < width /\ y >= 0 /\ y < height
             THEN LET isInMask == isPointInMask(Pt(x, y), m)
                  IN  IF isInMask /\ ~st.inRegion
                      THEN sampleLine(m, width, height, ln, step + 1,
                               [st EXCEPT !.path = Append(st.path, Pt(x, y)),
                                          !.inRegion = TRUE])
                      ELSE IF ~isInMask /\ st.inRegion
                      THEN sampleLine(m, width, height, ln, step + 1,
                               [path |-> <<>>, inRegion |-> FALSE,
                                paths |-> IF Len(st.path) > 1
                                          THEN Append(st.paths, st.path)
                                          ELSE st.paths])
                      ELSE IF isInMask /\ st.inRegion
                      THEN sampleLine(m, width, height, ln, step + 1,
                               [st EXCEPT !.path = Append(st.path, Pt(x, y))])
                      ELSE sampleLine(m, width, height, ln, step + 1, st)
             ELSE sampleLine(m, width, height, ln, step + 1, st)

\* The for (offset) loop of generateParallelHatching, from offset on; the path
\* and inRegion are fresh for every line, and the paths of the lines follow
\* one another in the result.
RECURSIVE hatchLines(_, _, _, _, _, _, _, _)
hatchLines(m, width, height, cos, sin, diagonal, spacing, offset) ==
    IF ~(offset < diagonal) THEN <<>>
    ELSE LET ln == [startX |-> mulS(-diagonal, cos) + mulS(offset, -sin),
                    startY |-> mulS(-diagonal, sin) + mulS(offset, cos),
                    endX   |-> mulS(diagonal, cos) + mulS(offset, -sin),
                    endY   |-> mulS(diagonal, sin) + mulS(offset, cos),
                    steps  |-> floorS(diagonal * 2)]
         IN  sampleLine(m, width, height, ln, 0,
                        [path |-> <<>>, inRegion |-> FALSE, paths |-> <<>>])
             \o hatchLines(m, width, height, cos, sin, diagonal, spacing,
                           offset + spacing)

\* generateParallelHatching(mask, intensity, baseSpacing, angle, width, height);
\* intens and spacing0 are in fixed point.
generateParallelHatching(m, intens, spacing0, ang, width, height) ==
    LET cos == cosDeg(ang)
        sin == sinDeg(ang)
        \* spacing = baseSpacing / Math.max(0.3, intensity)
        spacing == divS(spacing0, Max((3 * Scale) \div 10, intens))
        diagonal == sqrtS((width * width + height * height) * Scale)
    IN  hatchLines(m, width, height, cos, sin, diagonal, spacing, -diagonal)

\* Array.prototype.slice(start, end) on a sequence, with JavaScript's handling
\* of negative and out-of-range indices.
slice(s, start, end) ==
    LET n  == Len(s)
        from == IF start < 0 THEN Max(n + start, 0) ELSE Min(start, n)
        to   == IF end < 0 THEN Max(n + end, 0) ELSE Min(end, n)
    IN  IF from >= to THEN <<>> ELSE SubSeq(s, from + 1, to)

\* varyLineLength(path, factor); factor in fixed point.
varyLineLength(path, factor) ==
    IF Len(path) < 2 THEN path
    ELSE LET newLength == floorS(Len(path) * factor)
         IN  IF newLength < 2 THEN <<path[1], path[2]>>
             ELSE LET startIndex == (Len(path) - newLength) \div 2
                  IN  slice(path, startIndex, startIndex + newLength)

\* Math.random: a generator with RandMod states that visits them all; the
\* value drawn is state / RandMod, in fixed point.
RandMod == 8

rngNext(s) == (s + 5) % RandMod

rngValue(s) == (s * Scale) \div RandMod

\* layerPaths.map(path => varyLineLength(path, 0.8 + Math.random() * 0.4)),
\* one draw per path, in order; returns the paths and the generator's state.
RECURSIVE varyAll(_, _, _, _)
varyAll(layerPaths, k, g, acc) ==
    IF k > Len(layerPaths) THEN [paths |-> acc, rng |-> g]
    ELSE LET factor == (8 * Scale) \div 10 + mulS(rngValue(g), (4 * Scale) \div 10)
         IN  varyAll(layerPaths, k + 1, rngNext(g),
                     Append(acc, varyLineLength(layerPaths[k], factor)))

\* The for (layer) loop of generateCrossHatching, from layer on; returns the
\* paths pushed and the generator's state.
RECURSIVE crossLayers(_, _, _, _, _, _, _, _)
crossLayers(m, numLayers, spacing0, primaryAngle, width, height, layer, g) ==
    IF ~(layer < numLayers) THEN [paths |-> <<>>, rng |-> g]
    ELSE LET angles == <<primaryAngle, primaryAngle + 90, primaryAngle + 45,
                         primaryAngle + 135>>
             layerAngle == angles[(layer % 4) + 1]
             \* baseSpacing * (1 + layer * 0.3)
             layerSpacing == mulS(spacing0, Scale + (layer * 3 * Scale) \div 10)
             layerPaths == generateParallelHatching(m, Scale, layerSpacing, layerAngle,
                                                    width, height)
             \* For additional layers, make lines slightly shorter and more varied
             pushed == IF layer > 0 THEN varyAll(layerPaths, 1, g, <<>>)
                       ELSE [paths |-> layerPaths, rng |-> g]
             rest == crossLayers(m, numLayers, spacing0, primaryAngle, width, height,
                                 layer + 1, pushed.rng)
         IN  [paths |-> pushed.paths \o rest.paths, rng |-> rest.rng]

\* generateCrossHatching(mask, intensity, baseSpacing, primaryAngle, width, height)
generateCrossHatching(m, intens, spacing0, primaryAngle, width, height, g) ==
    LET maxLayers == 4
        numLayers == ceilS(intens * maxLayers)
    IN  crossLayers(m, numLayers, spacing0, primaryAngle, width, height, 0, g)

\* A variant that takes every dot for a dot of the region.
isDotInMask_AnyDot(point, m) == TRUE

\* isPointInMask(point, mask) for a point in fixed point: Math.floor first.
isDotInMask(point, m) == isPointInMask(Pt(floorS(point.x), floorS(point.y)), m)

\* An empty cell of the grid of poissonDiskSampling (null).
NoPoint == Pt(-1, -1)

\* The cell of a point.
cellOf(c, p) == <<p.x \div c.cellSize, p.y \div c.cellSize>>

\* The check of the neighbouring grid cells: no point kept in them is closer
\* than minDist to the candidate.
farFromNeighbours(c, grid, candidate) ==
    LET cell == cellOf(c, candidate)
    IN  \A dx \in -2..2, dy \in -2..2 :
            LET nx == cell[1] + dx
                ny == cell[2] + dy
            IN  (/\ nx >= 0 /\ nx < c.gridWidth /\ ny >= 0 /\ ny < c.gridHeight
                 /\ grid[<<nx, ny>>] # NoPoint) =>
                    LET neighbor == grid[<<nx, ny>>]
                        ex == candidate.x - neighbor.x
                        ey == candidate.y - neighbor.y
                    IN  ~(ex * ex + ey * ey < c.minDist * c.minDist)

\* The for (i < k) loop of poissonDiskSampling around the point current, from
\* the attempt i on: two draws per attempt, the angle and the distance.
RECURSIVE attemptsFrom(_, _, _, _, _)
attemptsFrom(c, grid, current, i, g) ==
    IF ~(i < 30) THEN [found |-> FALSE, candidate |-> NoPoint, rng |-> g]
    ELSE LET degrees == (rngValue(g) * 360) \div Scale
             dist == c.minDist + mulS(rngValue(rngNext(g)), c.maxDist - c.minDist)
             g2 == rngNext(rngNext(g))
             candidate == Pt(current.x + mulS(cosDeg(degrees), dist),
                             current.y + mulS(sinDeg(degrees), dist))
         IN  IF /\ candidate.x >= 0 /\ candidate.x < c.width * Scale
                /\ candidate.y >= 0 /\ candidate.y < c.height * Scale
                /\ farFromNeighbours(c, grid, candidate)
             THEN [found |-> TRUE, candidate |-> candidate, rng |-> g2]
             ELSE attemptsFrom(c, grid, current, i + 1, g2)

\* The while loop of poissonDiskSampling; st = [points, active, grid, rng].
RECURSIVE samplingLoop(_, _)
samplingLoop(c, st) ==
    IF Len(st.active) > 0 /\ Len(st.points) * Scale < c.limit
    THEN LET randomIndex == (rngValue(st.rng) * Len(st.active)) \div Scale
             current == st.active[randomIndex + 1]
             t == attemptsFrom(c, st.grid, current, 0, rngNext(st.rng))
         IN  IF t.found
             THEN samplingLoop(c, [points |-> Append(st.points, t.candidate),
                                   active |-> Append(st.active, t.candidate),
                                   grid |-> [st.grid EXCEPT ![cellOf(c, t.candidate)] = t.candidate],
                                   rng |-> t.rng])
             ELSE samplingLoop(c, [points |-> st.points,
                                   active |-> [k \in 1..(Len(st.active) - 1) |->
                                                 IF k <= randomIndex THEN st.active[k]
                                                 ELSE st.active[k + 1]],
                                   grid |-> st.grid,
                                   rng |-> t.rng])
    ELSE st

\* poissonDiskSampling(width, height, minDist, maxDist, density), with the
\* generator state g; minDist, maxDist and density are in fixed point.
\* Returns the points and the generator's state.
poissonDiskSampling(width, height, minDist, maxDist, density, g) ==
    LET cellSize == divS(minDist, sqrtS(2 * Scale))
        c == [width |-> width, height |-> height, minDist |-> minDist, maxDist |-> maxDist,
              cellSize |-> cellSize,
              gridWidth |-> ceilS(divS(width * Scale, cellSize)),
              gridHeight |-> ceilS(divS(height * Scale, cellSize)),
              \* width * height * density / (minDist * minDist)
              limit |-> divS(width * height * density, mulS(minDist, minDist))]
        first == Pt(mulS(rngValue(g), width * Scale),
                    mulS(rngValue(rngNext(g)), height * Scale))
        grid0 == [cell \in (0..(c.gridWidth - 1)) \X (0..(c.gridHeight - 1)) |-> NoPoint]
        fin == samplingLoop(c, [points |-> <<first>>, active |-> <<first>>,
                                grid |-> [grid0 EXCEPT ![cellOf(c, first)] = first],
                                rng |-> rngNext(rngNext(g))])
    IN  [points |-> fin.points, rng |-> fin.rng]

\* The for (dot of dots) loop of generateStippling, from the dot k on: one
\* draw, the size of the dot, for every dot inside the mask.
RECURSIVE dotsFrom(_, _, _, _)
dotsFrom(m, dots, k, g) ==
    IF k > Len(dots) THEN [paths |-> <<>>, rng |-> g]
    ELSE IF isDotInMask(dots[k], m)
    THEN LET dotSize == Scale \div 2 + rngValue(g)
             rest == dotsFrom(m, dots, k + 1, rngNext(g))
         IN  [paths |-> << <<dots[k], Pt(dots[k].x + dotSize, dots[k].y)>> >> \o rest.paths,
              rng |-> rest.rng]
    ELSE dotsFrom(m, dots, k + 1, g)

\* generateStippling(mask, intensity, baseSpacing, width, height), with the
\* generator state g; the vertices of the paths returned are in fixed point.
generateStippling(m, intens, spacing0, width, height, g) ==
    LET dotDensity == mulS(intens, (3 * Scale) \div 10)
        minSpacing == spacing0 \div 2
        maxSpacing == spacing0 * 2
        dots == poissonDiskSampling(width, height, minSpacing, maxSpacing, dotDensity, g)
    IN  dotsFrom(m, dots.points, 1, dots.rng)

\* cv.findContours(mask, RETR_LIST, CHAIN_APPROX_SIMPLE) on a mask whose
\* non-zero pixels fill the rectangle x0..x1, y0..y1: OpenCV follows the outer
\* border from its top-left pixel downwards and keeps the corners; a
\* rectangle one pixel wide or high has two corners, a single pixel one.
findContours(r) ==
    IF r.x0 = r.x1 /\ r.y0 = r.y1 THEN << <<Pt(r.x0, r.y0)>> >>
    ELSE IF r.x0 = r.x1 THEN << <<Pt(r.x0, r.y0), Pt(r.x0, r.y1)>> >>
    ELSE IF r.y0 = r.y1 THEN << <<Pt(r.x0, r.y0), Pt(r.x1, r.y0)>> >>
    ELSE << <<Pt(r.x0, r.y0), Pt(r.x0, r.y1), Pt(r.x1, r.y1), Pt(r.x1, r.y0)>> >>

\* The element before and after index i (from 1) of a closed contour.
cyclicPrev(s, i) == s[((i - 2 + Len(s)) % Len(s)) + 1]

cyclicNext(s, i) == s[(i % Len(s)) + 1]

\* offsetContour(contour, offset): the contour's integer points, each moved
\* along its normal; the result is in fixed point, <<>> stands for null.
offsetContour(contour, offset) ==
    IF Len(contour) < 3 THEN <<>>
    ELSE [i \in 1..Len(contour) |->
            LET prev == cyclicPrev(contour, i)
                curr == contour[i]
                next == cyclicNext(contour, i)
                v1 == Pt(curr.x - prev.x, curr.y - prev.y)
                v2 == Pt(next.x - curr.x, next.y - curr.y)
                normal == Pt(-(v1.y + v2.y), v1.x + v2.x)
                length == sqrtS((normal.x * normal.x + normal.y * normal.y) * Scale)
            IN  IF length > 0
                THEN Pt(curr.x * Scale + mulS(divS(normal.x * Scale, length), offset),
                        curr.y * Scale + mulS(divS(normal.y * Scale, length), offset))
                ELSE Pt(curr.x * Scale, curr.y * Scale)]

\* One iteration of smoothContour.
smoothOnce(points) ==
    [i \in 1..Len(points) |->
        LET prev == cyclicPrev(points, i)
            curr == points[i]
            next == cyclicNext(points, i)
        IN  Pt((prev.x + 2 * curr.x + next.x) \div 4,
               (prev.y + 2 * curr.y + next.y) \div 4)]

\* smoothContour(points, iterations = 2)
smoothContour(points) == smoothOnce(smoothOnce(points))

\* The for (i) loop over the contours, inside one layer.
RECURSIVE contourLayer(_, _, _, _)
contourLayer(contours, offset, i, acc) ==
    IF i > Len(contours) THEN acc
    ELSE LET oc == offsetContour(contours[i], offset)
         IN  IF Len(oc) > 3 /\ Len(smoothContour(oc)) > 2
             THEN contourLayer(contours, offset, i + 1, Append(acc, smoothContour(oc)))
             ELSE contourLayer(contours, offset, i + 1, acc)

\* The for (layer) loop of generateContourHatching.
RECURSIVE contourLayers(_, _, _, _, _)
contourLayers(contours, numLayers, spacing, layer, acc) ==
    IF ~(layer < numLayers) THEN acc
    ELSE contourLayers(contours, numLayers, spacing, layer + 1,
                       contourLayer(contours, -layer * spacing, 1, acc))

\* generateContourHatching(mask, intensity, baseSpacing, width, height); the
\* vertices of the paths returned are in fixed point.
generateContourHatching(contours, intens, spacing0) ==
    IF Len(contours) = 0 THEN <<>>
    ELSE LET \* spacing = baseSpacing / (0.3 + intensity * 0.7)
             spacing == divS(spacing0, (3 * Scale) \div 10 + mulS(intens, (7 * Scale) \div 10))
             numLayers == ceilS(intens * 8)
         IN  contourLayers(contours, numLayers, spacing, 0, <<>>)

(***************************************************************************)
(* douglasPeucker (the same text in VectorizationEngine and PathOptimizer) *)
(***************************************************************************)

\* perpendicularDistance(point, lineStart, lineEnd): the distance is
\* num / Math.sqrt(den2), kept as the pair; it is NaN when the chord's ends
\* coincide (then num = 0 and den2 = 0).
perpendicularDistance(point, lineStart, lineEnd) ==
    LET A == lineEnd.y - lineStart.y
        B == lineStart.x - lineEnd.x
        C == lineEnd.x * lineStart.y - lineStart.x * lineEnd.y
    IN  [num |-> Abs(A * point.x + B * point.y + C), den2 |-> A * A + B * B]

\* d > maxD on two such distances; a comparison with NaN is false.
isGreater(d, maxD) ==
    /\ d.den2 # 0
    /\ maxD.den2 # 0
    /\ d.num * d.num * maxD.den2 > maxD.num * maxD.num * d.den2

\* maxDistance > epsilon, for epsilon = eps.num / eps.den, not negative.
exceeds(maxD, eps) ==
    /\ maxD.den2 # 0
    /\ maxD.num * maxD.num * eps.den * eps.den > eps.num * eps.num * maxD.den2

\* A variant of the loop below that reports the middle index.
farthestFrom_Middle(points, i, best) ==
    LET RECURSIVE go(_, _)
        go(k, b) ==
            IF ~(k < Len(points) - 1) THEN b
            ELSE LET d == perpendicularDistance(points[k + 1], points[1],
                                                points[Len(points)])
                 IN  IF isGreater(d, b.maxDistance)
                     THEN go(k + 1, [maxDistance |-> d, maxIndex |-> Len(points) \div 2])
                     ELSE go(k + 1, b)
    IN  go(i, best)

\* The for (i) loop of douglasPeucker, from index i (from 0) on.
RECURSIVE farthestFrom(_, _, _)
farthestFrom(points, i, best) ==
    IF ~(i < Len(points) - 1) THEN best
    ELSE LET distance_i == perpendicularDistance(points[i + 1], points[1],
                                                 points[Len(points)])
         IN  IF isGreater(distance_i, best.maxDistance)
             THEN farthestFrom(points, i + 1, [maxDistance |-> distance_i, maxIndex |-> i])
             ELSE farthestFrom(points, i + 1, best)

\* A variant that keeps the split point twice.
splice_KeepBoth(left, right) == left \o right

\* [...left.slice(0, -1), ...right]
splice(left, right) == slice(left, 0, -1) \o right

\* douglasPeucker(points, epsilon)
RECURSIVE douglasPeucker(_, _)
douglasPeucker(points, eps) ==
    IF Len(points) <= 2 THEN points
    ELSE LET far == farthestFrom(points, 1,
                        [maxDistance |-> [num |-> 0, den2 |-> 1], maxIndex |-> 0])
         IN  IF exceeds(far.maxDistance, eps)
             THEN splice(douglasPeucker(slice(points, 0, far.maxIndex + 1), eps),
                         douglasPeucker(slice(points, far.maxIndex, Len(points)), eps))
             ELSE <<points[1], points[Len(points)]>>

(***************************************************************************)
(* CurveFitter                                                             *)
(* Coordinates, lengths and the tolerance are in fixed point.  An error is *)
(* kept as the sum totalError of the squared distances: the RMS error      *)
(* Math.sqrt(totalError / n) grows with it, and the comparisons of an      *)
(* error with another one or with the tolerance are made on the sums.      *)
(***************************************************************************)
Bezier(s, c1, c2, e) == [start |-> s, control1 |-> c1, control2 |-> c2, end |-> e]

\* createSimpleBezier(p0, p1, p2)
createSimpleBezier(p0, p1, p2) ==
    Bezier(p0,
           Pt(p0.x + (p1.x - p0.x) \div 2, p0.y + (p1.y - p0.y) \div 2),
           Pt(p1.x + (p2.x - p1.x) \div 2, p1.y + (p2.y - p1.y) \div 2),
           p2)

\* evaluateBezier(curve, t) for t = tn / td
evaluateBezier(curve, tn, td) ==
    LET un  == td - tn
        uuu == un * un * un
        uut == 3 * un * un * tn
        utt == 3 * un * tn * tn
        ttt == tn * tn * tn
        ddd == td * td * td
    IN  Pt((uuu * curve.start.x + uut * curve.control1.x + utt * curve.control2.x
                + ttt * curve.end.x) \div ddd,
           (uuu * curve.start.y + uut * curve.control1.y + utt * curve.control2.y
                + ttt * curve.end.y) \div ddd)

\* The square of distance(p1, p2) of the fitter.
distance2(p1, p2) == (p2.x - p1.x) * (p2.x - p1.x) + (p2.y - p1.y) * (p2.y - p1.y)

\* The loop of calculateCurveError, from index i (from 0) on: totalError.
RECURSIVE totalErrorFrom(_, _, _)
totalErrorFrom(points, curve, i) ==
    IF ~(i < Len(points)) THEN 0
    ELSE distance2(points[i + 1], evaluateBezier(curve, i, Len(points) - 1))
         + totalErrorFrom(points, curve, i + 1)

\* calculateCurveError(points, curve), as totalError
calculateCurveError(points, curve) == totalErrorFrom(points, curve, 0)

\* error <= tolerance, for the error of n points with the sum totalError
withinTolerance(totalError, n, tol) == totalError <= n * tol * tol

\* calculateTangent(points, index), for the first and the last index
calculateTangent(points, index) ==
    LET n == Len(points)
        tangent == IF index = 0
                   THEN Pt(points[2].x - points[1].x, points[2].y - points[1].y)
                   ELSE IF index = n - 1
                   THEN Pt(points[n].x - points[n - 1].x, points[n].y - points[n - 1].y)
                   ELSE Pt(points[index + 2].x - points[index].x,
                           points[index + 2].y - points[index].y)
        length == ISqrt(tangent.x * tangent.x + tangent.y * tangent.y)
    IN  IF length > 0 THEN Pt(divS(tangent.x, length), divS(tangent.y, length))
        ELSE tangent

\* The perturbations of optimizeControlPoints, in units of step.
perturbations ==
    << <<1, 0>>, <<-1, 0>>, <<0, 1>>, <<0, -1>>, <<1, 1>>, <<-1, -1>>, <<1, -1>>, <<-1, 1>> >>

\* The for (p2) loop inside for (p1), from the j-th perturbation on; best is
\* [c1, c2, error] and is updated in place.
RECURSIVE perturbC2From(_, _, _, _, _, _)
perturbC2From(points, s, e, p1, j, best) ==
    IF j > Len(perturbations) THEN best
    ELSE LET step == Scale \div 2
             p2 == perturbations[j]
             newC1 == Pt(best.c1.x + p1[1] * step, best.c1.y + p1[2] * step)
             newC2 == Pt(best.c2.x + p2[1] * step, best.c2.y + p2[2] * step)
             error == calculateCurveError(points, Bezier(s, newC1, newC2, e))
         IN  IF error < best.error
             THEN perturbC2From(points, s, e, p1, j + 1,
                                [c1 |-> newC1, c2 |-> newC2, error |-> error])
             ELSE perturbC2From(points, s, e, p1, j + 1, best)

\* The for (p1) loop of one iteration, from the i-th perturbation on (no
\* error is less than an error of 0).
RECURSIVE perturbC1From(_, _, _, _, _)
perturbC1From(points, s, e, i, best) ==
    IF i > Len(perturbations) \/ best.error = 0 THEN best
    ELSE perturbC1From(points, s, e, i + 1,
                       perturbC2From(points, s, e, perturbations[i], 1, best))

\* The for (iter) loop of optimizeControlPoints: best after iter iterations.
RECURSIVE afterIterations(_, _, _, _, _)
afterIterations(points, s, e, iter, initial) ==
    IF iter = 0 THEN initial
    ELSE perturbC1From(points, s, e, 1, afterIterations(points, s, e, iter - 1, initial))

\* optimizeControlPoints(points, start, control1, control2, end)
optimizeControlPoints(points, s, c1, c2, e) ==
    LET iterations == 5
    IN  afterIterations(points, s, e, iterations,
                        [c1 |-> c1, c2 |-> c2,
                         error |-> calculateCurveError(points, Bezier(s, c1, c2, e))])

\* fitBezierToPoints(points), for 3 points or more
fitBezierToPoints(points) ==
    LET n == Len(points)
        s == points[1]
        e == points[n]
        startTangent == calculateTangent(points, 0)
        endTangent == calculateTangent(points, n - 1)
        \* alpha = 0.3
        startLength == (ISqrt(distance2(s, e)) * 3) \div 10
        endLength == (ISqrt(distance2(s, e)) * 3) \div 10
        c1 == Pt(s.x + mulS(startTangent.x, startLength),
                 s.y + mulS(startTangent.y, startLength))
        c2 == Pt(e.x - mulS(endTangent.x, endLength),
                 e.y - mulS(endTangent.y, endLength))
        optimized == optimizeControlPoints(points, s, c1, c2, e)
    IN  Bezier(s, optimized.c1, optimized.c2, e)

NoFit == [found |-> FALSE]

\* The for (length) loop of findBestCurveFit, from length down.
RECURSIVE fitFrom(_, _, _, _)
fitFrom(points, startIndex, tol, length) ==
    IF ~(length >= 3) THEN NoFit
    ELSE LET endIndex == startIndex + length - 1
         IN  IF endIndex >= Len(points)
             THEN fitFrom(points, startIndex, tol, length - 1)
             ELSE LET segment == slice(points, startIndex, endIndex + 1)
                      curve == fitBezierToPoints(segment)
                      error == calculateCurveError(segment, curve)
                  IN  IF withinTolerance(error, length, tol)
                      THEN [found |-> TRUE, curve |-> curve, endIndex |-> endIndex]
                      ELSE fitFrom(points, startIndex, tol, length - 1)

\* findBestCurveFit(points, startIndex, tolerance); NoFit stands for null
findBestCurveFit(points, startIndex, tol) ==
    LET maxSegmentLength == Min(Len(points) - startIndex, 20)
    IN  fitFrom(points, startIndex, tol, maxSegmentLength)

(***************************************************************************)
(* Inputs of the optimizer                                                 *)
(***************************************************************************)
MaxPaths == 4

\* One pass only, and the cap the top-level entry point fixes.
IterChoices == {1, 100}

\* Polylines on the line y = 0: every distance between their points is an integer.
PathPool ==
    { <<>>,
      <<Pt(0, 0), Pt(2, 0)>>,
      <<Pt(4, 0), Pt(7, 0)>>,
      <<Pt(9, 0), Pt(0, 0)>>,
      <<Pt(2, 0), Pt(9, 0)>> }

PathLists == UNION {[1..n -> PathPool] : n \in 0..MaxPaths}

OptionSets ==
    [enablePathMerging : BOOLEAN, enable2Opt : BOOLEAN,
     mergeThreshold : {1}, maxIterations : IterChoices]

NoResult == [paths |-> <<>>, totalDistance |-> -1, improvement |-> improvementOf(0, 0)]

\* The optimizer at rest, in the specifications of the other routines.
OptIdle ==
    /\ paths = <<>>
    /\ options = [enablePathMerging |-> TRUE, enable2Opt |-> TRUE,
                  mergeThreshold |-> 5, maxIterations |-> 100]
    /\ originalDistance = 0
    /\ optimizedPaths = <<>>
    /\ result = NoResult
    /\ again = NoResult
    /\ opc = "idle"

\* The two-point merge scenario, with the threshold 5.
ScenarioS2 == << <<Pt(0, 0), Pt(10, 0)>>, <<Pt(11, 0), Pt(20, 0)>> >>

\* The 2-opt scenario: four paths, the second and the third out of place.
\* Math.sqrt is not exact on these points; distance gives its integer part,
\* and the order distances that are compared differ by 10 and more.
ScenarioS3 ==
    << <<Pt(0, 0), Pt(10, 0)>>, <<Pt(100, 0), Pt(110, 0)>>,
       <<Pt(10, 1), Pt(20, 1)>>, <<Pt(110, 1), Pt(120, 1)>> >>

\* The calls: every list of the pool with every option set, and the scenarios.
OptInputs ==
    (PathLists \X OptionSets)
    \cup ({ScenarioS3} \X OptionSets)
    \cup ({ScenarioS2} \X {[o EXCEPT !.mergeThreshold = 5] : o \in OptionSets})

OptRun ==
    /\ \E inp \in OptInputs : paths = inp[1] /\ options = inp[2]
    /\ originalDistance = 0
    /\ optimizedPaths = paths
    /\ result = NoResult
    /\ again = NoResult
    /\ opc = "call"

\* if (paths.length === 0) return { paths: [], totalDistance: 0, improvement: 0 }
OptEmpty ==
    /\ opc = "call"
    /\ Len(paths) = 0
    /\ result' = optimizePaths(paths, options)
    /\ opc' = "done"
    /\ UNCHANGED <<paths, options, originalDistance, optimizedPaths, again>>

\* originalDistance, the copy of the list, and step 1 (merge).
OptMerge ==
    /\ opc = "call"
    /\ Len(paths) > 0
    /\ originalDistance' = calculateTotalTravelDistance(paths)
    /\ optimizedPaths' = step1(paths, options)
    /\ opc' = "step2"
    /\ UNCHANGED <<paths, options, result, again>>

\* Step 2 (2-opt).
Opt2Opt ==
    /\ opc = "step2"
    /\ optimizedPaths' = step2(optimizedPaths, options)
    /\ opc' = "step3"
    /\ UNCHANGED <<paths, options, originalDistance, result, again>>

\* A variant whose step 3 swaps the entries of the caller's array itself.
OptGreedy_InPlace ==
    /\ opc = "step3"
    /\ LET out   == step3(optimizedPaths)
           final == calculateTotalTravelDistance(out)
       IN  /\ optimizedPaths' = out
           /\ paths' = out
           /\ result' = [paths |-> out, totalDistance |-> final,
                         improvement |-> improvementOf(originalDistance, final)]
    /\ opc' = "done"
    /\ UNCHANGED <<options, originalDistance, again>>

\* Step 3 (greedy adjacent swaps) and the returned record.
OptGreedy ==
    /\ opc = "step3"
    /\ LET out   == step3(optimizedPaths)
           final == calculateTotalTravelDistance(out)
       IN  /\ optimizedPaths' = out
           /\ result' = [paths |-> out, totalDistance |-> final,
                         improvement |-> improvementOf(originalDistance, final)]
    /\ opc' = "done"
    /\ UNCHANGED <<paths, options, originalDistance, again>>

\* The caller optimizes the returned list once more, with the same options.
OptAgain ==
    /\ opc = "done"
    /\ again' = optimizePaths(result.paths, options)
    /\ opc' = "again"
    /\ UNCHANGED <<paths, options, originalDistance, optimizedPaths, result>>

(***************************************************************************)
(* VectorizationEngine.traceCenterlines                                    *)
(***************************************************************************)

\* A run is named by its row and its index in the row: the source holds the
\* run objects themselves in its paths.
segAt(rows, id) == rows[id[1] + 1][id[2]]

\* The row scan of one row, from column x on: inSegment and x1 are the source's.
\* midX = (x1 + x2) / 2 is kept doubled (mid2) to stay an integer.
RECURSIVE scanRow(_, _, _, _, _, _)
scanRow(cv, thr, y, x, st, acc) ==
    LET mk(a, b) == [y |-> y, x1 |-> a, x2 |-> b, used |-> FALSE, mid2 |-> a + b]
    IN  IF ~(x < cv.width)
        THEN IF st.inSegment THEN Append(acc, mk(st.x1, cv.width - 1)) ELSE acc
        ELSE LET px == cv.data[y * cv.width + x]
                 \* gray = (r + g + b) / 3 < threshold
                 isBlack == px[1] + px[2] + px[3] < 3 * thr
             IN  IF isBlack /\ ~st.inSegment
                 THEN scanRow(cv, thr, y, x + 1, [inSegment |-> TRUE, x1 |-> x], acc)
                 ELSE IF ~isBlack /\ st.inSegment
                 THEN scanRow(cv, thr, y, x + 1, [inSegment |-> FALSE, x1 |-> st.x1],
                              Append(acc, mk(st.x1, x - 1)))
                 ELSE scanRow(cv, thr, y, x + 1, st, acc)

\* segmentsByRow after the scan: row y of the source is element y + 1.
scanRows(cv, thr) ==
    [r \in 1..cv.height |->
        scanRow(cv, thr, r - 1, 0, [inSegment |-> FALSE, x1 |-> 0], <<>>)]

\* The loop of findClosestUnusedSegment over the candidates k.., with the
\* best match so far (0: null) and its distance (doubled; -1: Infinity).
RECURSIVE closestFrom(_, _, _, _, _, _)
closestFrom(from, candidates, prox, k, bestMatch, minDistance) ==
    IF k > Len(candidates) THEN bestMatch
    ELSE LET to == candidates[k]
             horizontalDistance ==
                 Max(0, Max(from.x1, to.x1) - Min(from.x2, to.x2))
             \* 2 * (|from.midX - to.midX| + horizontalDistance * 0.5)
             totalDistance == Abs(from.mid2 - to.mid2) + horizontalDistance
         IN  IF to.used
             THEN closestFrom(from, candidates, prox, k + 1, bestMatch, minDistance)
             ELSE IF horizontalDistance <= prox * 2
                     /\ (minDistance = -1 \/ totalDistance < minDistance)
             THEN closestFrom(from, candidates, prox, k + 1, k, totalDistance)
             ELSE closestFrom(from, candidates, prox, k + 1, bestMatch, minDistance)

\* A variant that does not skip the runs already used.
findClosestUnusedSegment_AnyRun(from, candidates, prox) ==
    closestFrom(from, [k \in 1..Len(candidates) |->
                          [candidates[k] EXCEPT !.used = FALSE]], prox, 1, 0, -1)

\* findClosestUnusedSegment(from, candidates, proximity): the index of the
\* match among the candidates, 0 for null.
findClosestUnusedSegment(from, candidates, prox) ==
    closestFrom(from, candidates, prox, 1, 0, -1)

\* The upward trace: rows prevY, prevY - 1, ... 0; st = [rows, path, cur].
RECURSIVE traceUp(_, _, _)
traceUp(st, prevY, prox) ==
    IF ~(prevY >= 0) THEN st
    ELSE LET k == findClosestUnusedSegment(segAt(st.rows, st.cur), st.rows[prevY + 1], prox)
         IN  IF k = 0 THEN st
             ELSE traceUp([rows |-> [st.rows EXCEPT ![prevY + 1][k].used = TRUE],
                           path |-> <<<<prevY, k>>>> \o st.path,
                           cur  |-> <<prevY, k>>], prevY - 1, prox)

\* The downward trace: rows nextY, nextY + 1, ... height - 1.
RECURSIVE traceDown(_, _, _)
traceDown(st, nextY, prox) ==
    IF ~(nextY < Len(st.rows)) THEN st
    ELSE LET k == findClosestUnusedSegment(segAt(st.rows, st.cur), st.rows[nextY + 1], prox)
         IN  IF k = 0 THEN st
             ELSE traceDown([rows |-> [st.rows EXCEPT ![nextY + 1][k].used = TRUE],
                             path |-> Append(st.path, <<nextY, k>>),
                             cur  |-> <<nextY, k>>], nextY + 1, prox)

\* The body of the stitching loop for an unused seed: mark it, trace up, reset,
\* trace down.
stitchFrom(rows, seed, prox) ==
    LET y    == seed[1]
        st0  == [rows |-> [rows EXCEPT ![y + 1][seed[2]].used = TRUE],
                 path |-> <<seed>>, cur |-> seed]
        up   == traceUp(st0, y - 1, prox)
    IN  traceDown([up EXCEPT !.cur = seed], y + 1, prox)

\* The position after (y, k) in the nested for loops; <<height, 1>> is the end.
RECURSIVE firstRunFrom(_, _)
firstRunFrom(rows, y) ==
    IF y >= Len(rows) THEN <<Len(rows), 1>>
    ELSE IF Len(rows[y + 1]) > 0 THEN <<y, 1>> ELSE firstRunFrom(rows, y + 1)

nextPos(rows, pos) ==
    IF pos[2] < Len(rows[pos[1] + 1]) THEN <<pos[1], pos[2] + 1>>
    ELSE firstRunFrom(rows, pos[1] + 1)

\* path.map(seg => ({ x: seg.midX, y: seg.y })), x doubled.
toPoints(rows, path) ==
    [k \in 1..Len(path) |-> [x2 |-> segAt(rows, path[k]).mid2, y |-> segAt(rows, path[k]).y]]

(***************************************************************************)
(* Inputs of the centerline extractor                                      *)
(***************************************************************************)
CLWidth == 3

CLHeight == 3

\* The proximities tried: overlap required, and a gap of up to 2 columns allowed.
Proximities == {0, 1}

\* Two pixel colours (RGB) on either side of the threshold 128: the gray
\* (r + g + b) / 3 of the first is just below it, of the second exactly on it.
Palette == {<<127, 128, 128>>, <<128, 128, 128>>}

Canvases ==
    [width : {CLWidth}, height : {CLHeight},
     data : [0..(CLWidth * CLHeight - 1) -> Palette]]

ClIdle ==
    /\ canvas = [width |-> 0, height |-> 0, data |-> <<>>]
    /\ threshold = 0
    /\ proximity = 0
    /\ segmentsByRow = <<>>
    /\ seedPos = <<0, 1>>
    /\ allPaths = <<>>
    /\ droppedPaths = <<>>
    /\ centerlines = <<>>
    /\ cpc = "idle"

ClRun ==
    /\ canvas \in Canvases
    /\ threshold = 128
    /\ proximity \in Proximities
    /\ segmentsByRow = <<>>
    /\ seedPos = <<0, 1>>
    /\ allPaths = <<>>
    /\ droppedPaths = <<>>
    /\ centerlines = <<>>
    /\ cpc = "scan"

\* Extract horizontal segments row by row.
ClScan ==
    /\ cpc = "scan"
    /\ segmentsByRow' = scanRows(canvas, threshold)
    /\ seedPos' = firstRunFrom(segmentsByRow', 0)
    /\ cpc' = "stitch"
    /\ UNCHANGED <<canvas, threshold, proximity, allPaths, droppedPaths, centerlines>>

\* if (segment.used) continue
ClSkip ==
    /\ cpc = "stitch"
    /\ seedPos[1] < canvas.height
    /\ segAt(segmentsByRow, seedPos).used
    /\ seedPos' = nextPos(segmentsByRow, seedPos)
    /\ UNCHANGED <<canvas, threshold, proximity, segmentsByRow, allPaths,
                   droppedPaths, centerlines, cpc>>

\* One iteration of the stitching loop on an unused run.
ClStitch ==
    /\ cpc = "stitch"
    /\ seedPos[1] < canvas.height
    /\ ~segAt(segmentsByRow, seedPos).used
    /\ LET st == stitchFrom(segmentsByRow, seedPos, proximity)
       IN  /\ segmentsByRow' = st.rows
           /\ IF Len(st.path) >= 3
              THEN allPaths' = Append(allPaths, st.path) /\ UNCHANGED droppedPaths
              ELSE droppedPaths' = Append(droppedPaths, st.path) /\ UNCHANGED allPaths
    /\ seedPos' = nextPos(segmentsByRow, seedPos)
    /\ UNCHANGED <<canvas, threshold, proximity, centerlines, cpc>>

\* Convert to point paths and return.
ClReturn ==
    /\ cpc = "stitch"
    /\ ~(seedPos[1] < canvas.height)
    /\ centerlines' = [k \in 1..Len(allPaths) |-> toPoints(segmentsByRow, allPaths[k])]
    /\ cpc' = "done"
    /\ UNCHANGED <<canvas, threshold, proximity, segmentsByRow, seedPos, allPaths,
                   droppedPaths>>

(***************************************************************************)
(* Inputs of the hatcher                                                   *)
(***************************************************************************)
HatchWidth == 3

HatchHeight == 3

\* The rectangles of pixels of the canvas.
Rects ==
    {r \in [x0 : 0..(HatchWidth - 1), x1 : 0..(HatchWidth - 1),
            y0 : 0..(HatchHeight - 1), y1 : 0..(HatchHeight - 1)] :
        r.x0 <= r.x1 /\ r.y0 <= r.y1}

\* The mask of the canvas' size that is 255 on the rectangle r, but for the
\* pixels of the set holes, and 0 elsewhere.
maskOf(r, holes) ==
    [cols |-> HatchWidth, rows |-> HatchHeight,
     data |-> [i \in 0..(HatchWidth * HatchHeight - 1) |->
                 LET x == i % HatchWidth
                     y == i \div HatchWidth
                 IN  IF /\ x >= r.x0 /\ x <= r.x1 /\ y >= r.y0 /\ y <= r.y1
                        /\ i \notin holes
                     THEN 255 ELSE 0]]

RectMasks == {maskOf(r, {}) : r \in Rects}

\* Rectangles, and rectangles with one pixel cleared.
Masks ==
    RectMasks \cup
    {maskOf(r, {i}) : r \in Rects, i \in 0..(HatchWidth * HatchHeight - 1)}

\* The rectangle of a rectangular mask.
rectOf(m) == CHOOSE r \in Rects : maskOf(r, {}) = m

Styles == {"parallel", "cross", "contour"}

\* intensity = 1 - level / (numColors - 1): a half and one.
Intensities == {Scale \div 2, Scale}

Spacings == {1, 2}

Angles == {0, 45, 90}

Seeds == {0, 5}

HatchIdle ==
    /\ mask = [cols |-> 0, rows |-> 0, data |-> <<>>]
    /\ intensity = 0
    /\ style = "parallel"
    /\ baseSpacing = 0
    /\ angle = 0
    /\ rng = 0
    /\ hatchPaths = <<>>
    /\ secondPaths = <<>>
    /\ hpc = "idle"

\* The contours of OpenCV are modelled on rectangular masks; Math.random is
\* drawn from in cross hatching only.
HatchRun ==
    /\ style \in Styles
    /\ mask \in (IF style = "contour" THEN RectMasks ELSE Masks)
    /\ intensity \in Intensities
    /\ baseSpacing \in Spacings
    /\ angle \in Angles
    /\ rng \in (IF style = "cross" THEN Seeds ELSE {0})
    /\ hatchPaths = <<>>
    /\ secondPaths = <<>>
    /\ hpc = "call"

\* generateHatching, case HatchingStyle.CONTOUR
HatchContour ==
    /\ hpc = "call"
    /\ style = "contour"
    /\ hatchPaths' = generateContourHatching(findContours(rectOf(mask)), intensity,
                                             baseSpacing * Scale)
    /\ hpc' = "done"
    /\ UNCHANGED <<mask, intensity, style, baseSpacing, angle, rng, secondPaths>>

\* generateHatching, case HatchingStyle.CROSS
HatchCross ==
    /\ hpc = "call"
    /\ style = "cross"
    /\ LET out == generateCrossHatching(mask, intensity, baseSpacing * Scale, angle,
                                        mask.cols, mask.rows, rng)
       IN  /\ hatchPaths' = out.paths
           /\ rng' = out.rng
    /\ hpc' = "done"
    /\ UNCHANGED <<mask, intensity, style, baseSpacing, angle, secondPaths>>

\* generateHatching is called with HatchingStyle.STIPPLING, on a rectangular
\* mask, with any state of the generator behind Math.random.
StippleRun ==
    /\ style = "stippling"
    /\ mask \in RectMasks
    /\ intensity \in Intensities
    /\ baseSpacing \in Spacings
    /\ angle = 0
    /\ rng \in 0..(RandMod - 1)
    /\ hatchPaths = <<>>
    /\ secondPaths = <<>>
    /\ hpc = "call"

\* generateHatching, case HatchingStyle.STIPPLING
HatchStippling ==
    /\ hpc = "call"
    /\ style = "stippling"
    /\ LET out == generateStippling(mask, intensity, baseSpacing * Scale,
                                    mask.cols, mask.rows, rng)
       IN  /\ hatchPaths' = out.paths
           /\ rng' = out.rng
    /\ hpc' = "done"
    /\ UNCHANGED <<mask, intensity, style, baseSpacing, angle, secondPaths>>

\* Two calls of generateHatching with the same arguments, for the comparison
\* of their results.
TwiceRun ==
    /\ style \in Styles \cup {"stippling"}
    /\ mask \in RectMasks
    /\ intensity \in Intensities
    /\ baseSpacing = 2
    /\ angle \in {0, 45}
    /\ rng \in Seeds
    /\ hatchPaths = <<>>
    /\ secondPaths = <<>>
    /\ hpc = "call"

\* A second call of generateHatching with the arguments of the first: the
\* generator behind Math.random takes no seed, and carries on from the state
\* the first call left it in.
HatchAgain ==
    /\ hpc = "done"
    /\ LET out ==
            CASE style = "contour" ->
                    [paths |-> generateContourHatching(findContours(rectOf(mask)), intensity,
                                                       baseSpacing * Scale),
                     rng |-> rng]
              [] style = "cross" ->
                    generateCrossHatching(mask, intensity, baseSpacing * Scale, angle,
                                          mask.cols, mask.rows, rng)
              [] style = "stippling" ->
                    generateStippling(mask, intensity, baseSpacing * Scale,
                                      mask.cols, mask.rows, rng)
              [] OTHER ->
                    [paths |-> generateParallelHatching(mask, intensity, baseSpacing * Scale,
                                                        angle, mask.cols, mask.rows),
                     rng |-> rng]
       IN  /\ secondPaths' = out.paths
           /\ rng' = out.rng
    /\ hpc' = "again"
    /\ UNCHANGED <<mask, intensity, style, baseSpacing, angle, hatchPaths>>

\* generateHatching, default: HatchingStyle.PARALLEL
HatchParallel ==
    /\ hpc = "call"
    /\ style = "parallel"
    /\ hatchPaths' = generateParallelHatching(mask, intensity, baseSpacing * Scale, angle,
                                              mask.cols, mask.rows)
    /\ hpc' = "done"
    /\ UNCHANGED <<mask, intensity, style, baseSpacing, angle, rng, secondPaths>>

(***************************************************************************)
(* Inputs of douglasPeucker                                                *)
(***************************************************************************)
DPMaxLen == 5

\* The points that the polylines are drawn from.
DPPool == {Pt(0, 0), Pt(1, 0), Pt(2, 1), Pt(2, -1), Pt(3, 3), Pt(4, 0)}

DPPolylines == UNION {[1..n -> DPPool] : n \in 0..DPMaxLen}

\* The tolerances: 0, 1/2, 1 and 2 (the engine's).
Epsilons ==
    {[num |-> 0, den |-> 1], [num |-> 1, den |-> 2], [num |-> 1, den |-> 1],
     [num |-> 2, den |-> 1]}

\* The polyline [(0,0),(1,0.1),(2,0),(3,-0.1),(10,0)] and the tolerance 0.5, in
\* tenths.
WavyLine == <<Pt(0, 0), Pt(10, 1), Pt(20, 0), Pt(30, -1), Pt(100, 0)>>

WavyEpsilon == [num |-> 5, den |-> 1]

DpIdle ==
    /\ dpPoints = <<>>
    /\ epsilon = [num |-> 0, den |-> 1]
    /\ simplified = <<>>
    /\ resimplified = <<>>
    /\ dpc = "idle"

DpRun ==
    /\ \/ dpPoints \in DPPolylines /\ epsilon \in Epsilons
       \/ dpPoints = WavyLine /\ epsilon = WavyEpsilon
    /\ simplified = <<>>
    /\ resimplified = <<>>
    /\ dpc = "call"

\* const simplified = this.douglasPeucker(path, epsilon)
DpSimplify ==
    /\ dpc = "call"
    /\ simplified' = douglasPeucker(dpPoints, epsilon)
    /\ dpc' = "done"
    /\ UNCHANGED <<dpPoints, epsilon, resimplified>>

\* douglasPeucker applied to its own result
DpAgain ==
    /\ dpc = "done"
    /\ resimplified' = douglasPeucker(simplified, epsilon)
    /\ dpc' = "again"
    /\ UNCHANGED <<dpPoints, epsilon, simplified>>

(***************************************************************************)
(* Inputs of the curve fitter                                              *)
(***************************************************************************)
FitMaxLen == 6

MaxSamples == 5

\* The point (x, y) of integers, in fixed point.
PtS(x, y) == Pt(x * Scale, y * Scale)

\* The polyline with the abscissae 0, 1, 2, ... and the ordinates ys.
polylineOf(ys) == [k \in 1..Len(ys) |-> PtS(k - 1, ys[k])]

\* Ordinates of polylines: a zigzag (its first 5 points are the polyline
\* [(0,0),(1,1),(2,0),(3,-1),(4,0)]), a sharper one, a step and a straight line.
Shapes ==
    {<<0, 1, 0, -1, 0, 1, 0, -1>>, <<0, 1, 0, -1, 1, -1, 1, -1>>,
     <<0, 0, 0, 1, -1, 0, 0, 1>>, <<0, 0, 0, 0, 0, 0, 0, 0>>}

FitPolylines ==
    {polylineOf(SubSeq(ys, 1, n)) : ys \in Shapes, n \in 2..Min(FitMaxLen, 8)}

\* The tolerances 0.1 and 0.5.
FitTolerances == {Scale \div 10, Scale \div 2}

\* Cubics to sample from: an arch, a loop and a straight line.
Cubics ==
    {Bezier(PtS(0, 0), PtS(0, 4), PtS(4, 4), PtS(4, 0)),
     Bezier(PtS(0, 0), PtS(4, 0), PtS(4, 4), PtS(0, 4)),
     Bezier(PtS(0, 0), PtS(1, 0), PtS(2, 0), PtS(3, 0))}

\* The n points of the cubic c at the parameters 0, 1/(n-1), ..., 1.
pointsFromBezier(c, n) == [k \in 1..n |-> evaluateBezier(c, k - 1, n - 1)]

\* The tolerances 0.01 and 2.0 (the default).
SampleTolerances == {Scale \div 100, 2 * Scale}

FitIdle ==
    /\ fitPoints = <<>>
    /\ tolerance = 0
    /\ sampled = FALSE
    /\ curves = <<>>
    /\ fi = 0
    /\ bestFit = NoFit
    /\ fpc = "idle"

FitRun ==
    /\ \/ /\ sampled = FALSE
          /\ fitPoints \in FitPolylines
          /\ tolerance \in FitTolerances
       \/ /\ sampled = TRUE
          /\ \E c \in Cubics, n \in 4..MaxSamples : fitPoints = pointsFromBezier(c, n)
          /\ tolerance \in SampleTolerances
    /\ curves = <<>>
    /\ fi = 0
    /\ bestFit = NoFit
    /\ fpc = "call"

\* if (points.length < 3) return []
FitShort ==
    /\ fpc = "call"
    /\ Len(fitPoints) < 3
    /\ fpc' = "done"
    /\ UNCHANGED <<fitPoints, tolerance, sampled, curves, fi, bestFit>>

\* while (i < points.length - 1): bestFit = findBestCurveFit(points, i, tolerance)
FitFind ==
    /\ fpc \in {"call", "loop"}
    /\ ~(Len(fitPoints) < 3)
    /\ fi < Len(fitPoints) - 1
    /\ bestFit' = findBestCurveFit(fitPoints, fi, tolerance)
    /\ fpc' = "found"
    /\ UNCHANGED <<fitPoints, tolerance, sampled, curves, fi>>

\* A variant that moves the window past the end of the curve pushed.
FitPush_PastEnd ==
    /\ fpc = "found"
    /\ bestFit.found
    /\ curves' = Append(curves, bestFit.curve)
    /\ fi' = bestFit.endIndex + 1
    /\ fpc' = "loop"
    /\ UNCHANGED <<fitPoints, tolerance, sampled, bestFit>>

\* if (bestFit): push its curve, i = bestFit.endIndex
FitPush ==
    /\ fpc = "found"
    /\ bestFit.found
    /\ curves' = Append(curves, bestFit.curve)
    /\ fi' = bestFit.endIndex
    /\ fpc' = "loop"
    /\ UNCHANGED <<fitPoints, tolerance, sampled, bestFit>>

\* else if (i < points.length - 2): push a simple curve, i += 2
FitFallback ==
    /\ fpc = "found"
    /\ ~bestFit.found
    /\ fi < Len(fitPoints) - 2
    /\ curves' = Append(curves, createSimpleBezier(fitPoints[fi + 1], fitPoints[fi + 2],
                                                   fitPoints[fi + 3]))
    /\ fi' = fi + 2
    /\ fpc' = "loop"
    /\ UNCHANGED <<fitPoints, tolerance, sampled, bestFit>>

\* else i++
FitSkip ==
    /\ fpc = "found"
    /\ ~bestFit.found
    /\ ~(fi < Len(fitPoints) - 2)
    /\ fi' = fi + 1
    /\ fpc' = "loop"
    /\ UNCHANGED <<fitPoints, tolerance, sampled, curves, bestFit>>

\* the loop is left: return curves
FitReturn ==
    /\ fpc = "loop"
    /\ ~(fi < Len(fitPoints) - 1)
    /\ fpc' = "done"
    /\ UNCHANGED <<fitPoints, tolerance, sampled, curves, fi, bestFit>>

(***************************************************************************)
(* VectorizationEngine.process and the buffers of its extractors           *)
(*                                                                         *)
(* The extractors allocate OpenCV buffers (cv.Mat, cv.MatVector), call     *)
(* OpenCV operations that may throw, and release the buffers with          *)
(* delete().  Each extractor is written down as its list of statements     *)
(* that allocate, call, release or branch, in source order, each with the  *)
(* handler the source gives it: the catch or finally block that receives   *)
(* an exception thrown there, or none when the statement is outside every  *)
(* try block.  The actions below run the list one statement at a time.     *)
(***************************************************************************)

\* A statement: op is "new" (a buffer is allocated and bound to the local v),
\* "call" (the operation v), "delete" (v.delete()), "for" (the test of the
\* loop on the counter v, leaving to the label to), "next" (the increment of
\* v, back to the label to), "unless" (skip to the label to unless the
\* hatching style is v), "goto" and "end".  at is the statement's label, h
\* the label of its handler ("" when it has none), pend whether the
\* exception stays pending in the handler (a finally block), line its line.
Stmt(op, v, at, h, pend, to, line) ==
    [op |-> op, v |-> v, at |-> at, h |-> h, pend |-> pend, to |-> to, line |-> line]

\* traceColorRegions(canvas, numColors)
traceColorRegionsStmts == <<
    Stmt("new",    "src",        "",        "",        FALSE, "", 135),
    Stmt("new",    "rgb",        "",        "catch",   FALSE, "", 140),
    Stmt("call",   "cvtColor",   "",        "catch",   FALSE, "", 141),
    Stmt("new",    "samples",    "",        "catch",   FALSE, "", 144),
    Stmt("new",    "labels",     "",        "catch",   FALSE, "", 155),
    Stmt("new",    "centers",    "",        "catch",   FALSE, "", 156),
    Stmt("call",   "kmeans",     "",        "catch",   FALSE, "", 159),
    Stmt("new",    "quantized",  "",        "catch",   FALSE, "", 162),
    Stmt("for",    "colorIndex", "loop",    "catch",   FALSE, "cleanup", 173),
    Stmt("new",    "mask",       "",        "catch",   FALSE, "", 174),
    Stmt("new",    "mask",       "",        "catch",   FALSE, "", 177),
    Stmt("new",    "contours",   "",        "catch",   FALSE, "", 187),
    Stmt("new",    "hierarchy",  "",        "catch",   FALSE, "", 188),
    Stmt("call",   "findContours", "",      "catch",   FALSE, "", 189),
    Stmt("delete", "mask",       "",        "catch",   FALSE, "", 211),
    Stmt("delete", "contours",   "",        "catch",   FALSE, "", 212),
    Stmt("delete", "hierarchy",  "",        "catch",   FALSE, "", 213),
    Stmt("next",   "colorIndex", "",        "catch",   FALSE, "loop", 173),
    Stmt("delete", "rgb",        "cleanup", "catch",   FALSE, "", 217),
    Stmt("delete", "samples",    "",        "catch",   FALSE, "", 218),
    Stmt("delete", "labels",     "",        "catch",   FALSE, "", 219),
    Stmt("delete", "centers",    "",        "catch",   FALSE, "", 220),
    Stmt("delete", "quantized",  "",        "catch",   FALSE, "", 221),
    Stmt("goto",   "",           "",        "",        FALSE, "finally", 223),
    Stmt("new",    "fallback.gray",      "catch", "finally", FALSE, "", 227),
    Stmt("call",   "cvtColor",           "",      "finally", FALSE, "", 228),
    Stmt("new",    "fallback.binary",    "",      "finally", FALSE, "", 230),
    Stmt("call",   "threshold",          "",      "finally", FALSE, "", 231),
    Stmt("new",    "fallback.contours",  "",      "finally", FALSE, "", 233),
    Stmt("new",    "fallback.hierarchy", "",      "finally", FALSE, "", 234),
    Stmt("call",   "findContours",       "",      "finally", FALSE, "", 235),
    Stmt("delete", "fallback.gray",      "",      "finally", FALSE, "", 253),
    Stmt("delete", "fallback.binary",    "",      "finally", FALSE, "", 254),
    Stmt("delete", "fallback.contours",  "",      "finally", FALSE, "", 255),
    Stmt("delete", "fallback.hierarchy", "",      "finally", FALSE, "", 256),
    Stmt("delete", "src",        "finally", "",        FALSE, "", 262),
    Stmt("end",    "",           "",        "",        FALSE, "", 265) >>

\* AdvancedHatcher.generateContourHatching(mask, ...), as called from the
\* level loop of generateAdvancedHatching; both of its exits from the try
\* block release contours and hierarchy.
generateContourHatchingStmts == <<
    Stmt("unless", "contour",    "",        "catch",   FALSE, "hatched", 403),
    Stmt("new",    "contours",   "",        "hatched", FALSE, "", 59),
    Stmt("new",    "hierarchy",  "",        "hatched", FALSE, "", 60),
    Stmt("call",   "findContours", "",      "hatched", FALSE, "", 61),
    Stmt("delete", "contours",   "",        "hatched", FALSE, "", 94),
    Stmt("delete", "hierarchy",  "",        "hatched", FALSE, "", 95) >>

\* generateSimpleHatching(canvas, numColors, spacing, angle), as called from
\* the catch block of generateAdvancedHatching: an exception that leaves it
\* passes through the finally block of the caller.
generateSimpleHatchingStmts == <<
    Stmt("new",    "simple.src",       "catch",         "finally",        TRUE,  "", 438),
    Stmt("new",    "simple.gray",      "",              "simple.finally", FALSE, "", 442),
    Stmt("call",   "cvtColor",         "",              "simple.finally", FALSE, "", 443),
    Stmt("new",    "simple.quantized", "",              "simple.finally", FALSE, "", 446),
    Stmt("call",   "copyTo",           "",              "simple.finally", FALSE, "", 447),
    Stmt("for",    "simple.level",     "simple.loop",   "simple.finally", FALSE, "simple.cleanup", 455),
    Stmt("new",    "simple.mask",      "",              "simple.finally", FALSE, "", 457),
    Stmt("call",   "threshold",        "",              "simple.finally", FALSE, "", 458),
    Stmt("delete", "simple.mask",      "",              "simple.finally", FALSE, "", 462),
    Stmt("next",   "simple.level",     "",              "simple.finally", FALSE, "simple.loop", 455),
    Stmt("delete", "simple.gray",      "simple.cleanup", "simple.finally", FALSE, "", 465),
    Stmt("delete", "simple.quantized", "",              "simple.finally", FALSE, "", 466),
    Stmt("delete", "simple.src",       "simple.finally", "finally",       TRUE,  "", 471) >>

\* generateAdvancedHatching(canvas, options, advancedOptions)
generateAdvancedHatchingStmts ==
    <<
    Stmt("new",    "src",        "",        "",        FALSE, "", 375),
    Stmt("new",    "gray",       "",        "catch",   FALSE, "", 380),
    Stmt("call",   "cvtColor",   "",        "catch",   FALSE, "", 381),
    Stmt("new",    "quantized",  "",        "catch",   FALSE, "", 384),
    Stmt("call",   "copyTo",     "",        "catch",   FALSE, "", 385),
    Stmt("for",    "level",      "loop",    "catch",   FALSE, "cleanup", 394),
    Stmt("new",    "mask",       "",        "catch",   FALSE, "", 399),
    Stmt("call",   "threshold",  "",        "catch",   FALSE, "", 400) >>
    \o generateContourHatchingStmts \o
    <<
    Stmt("delete", "mask",       "hatched", "catch",   FALSE, "", 414),
    Stmt("next",   "level",      "",        "catch",   FALSE, "loop", 394),
    Stmt("delete", "gray",       "cleanup", "catch",   FALSE, "", 417),
    Stmt("delete", "quantized",  "",        "catch",   FALSE, "", 418),
    Stmt("goto",   "",           "",        "",        FALSE, "finally", 420) >>
    \o generateSimpleHatchingStmts \o
    <<
    Stmt("delete", "src",        "finally", "",        FALSE, "", 425),
    Stmt("end",    "",           "",        "",        FALSE, "", 428) >>

\* traceCenterlines(canvas, threshold, proximity): it allocates no buffer;
\* reading the pixels of the canvas may throw.
traceCenterlinesReads == <<
    Stmt("call",   "getContext",   "", "", FALSE, "", 272),
    Stmt("call",   "getImageData", "", "", FALSE, "", 275),
    Stmt("end",    "",             "", "", FALSE, "", 359) >>

\* The switch (mode) of process.
Extractor(m) ==
    CASE m = "Color Regions" -> traceColorRegionsStmts
      [] m = "Centerline"    -> traceCenterlinesReads
      [] m = "Hatching"      -> generateAdvancedHatchingStmts
      [] OTHER               -> << Stmt("end", "", "", "", FALSE, "", 64) >>

\* The index of the statement labelled l.
labelled(prog, l) == CHOOSE k \in 1..Len(prog) : prog[k].at = l

\* The number of rounds of the loop on the counter c.
loopBound(c, n) == IF c = "colorIndex" THEN n ELSE n - 1

\* The locals that hold a buffer.
Locals ==
    {"src", "rgb", "samples", "labels", "centers", "quantized", "mask", "contours",
     "hierarchy", "gray", "fallback.gray", "fallback.binary", "fallback.contours",
     "fallback.hierarchy", "simple.src", "simple.gray", "simple.quantized", "simple.mask"}

\* The loop counters.
Counters == {"colorIndex", "level", "simple.level"}

\* The statements that may throw: the operations of OpenCV and of the canvas,
\* cv.imread (which allocates src) and delete().
mayThrow(s) ==
    \/ s.op \in {"call", "delete"}
    \/ s.op = "new" /\ s.v \in {"src", "simple.src"}

\* The documented range of numColors starts at MinColors.
MinColors == 2

MaxColors == 3

Modes == {"Color Regions", "Centerline", "Hatching", "Other"}

HatchingStyles == {"parallel", "contour"}

ProcIdle ==
    /\ mode = "Other"
    /\ numColors = 0
    /\ hatchingStyle = "parallel"
    /\ ip = 0
    /\ counter = [c \in Counters |-> 0]
    /\ serial = 0
    /\ refs = [l \in Locals |-> 0]
    /\ live = {}
    /\ pending = FALSE
    /\ outcome = "idle"

\* process(canvas, mode, options, advancedOptions) is called.
ProcRun ==
    /\ mode \in Modes
    /\ numColors \in 1..MaxColors
    /\ hatchingStyle \in HatchingStyles
    /\ ip = 1
    /\ counter = [c \in Counters |-> 0]
    /\ serial = 0
    /\ refs = [l \in Locals |-> 0]
    /\ live = {}
    /\ pending = FALSE
    /\ outcome = "running"

\* The statement at ip.
current == Extractor(mode)[ip]

running == outcome = "running"

\* new cv.Mat(), new cv.MatVector(), cv.Mat.zeros(), cv.imread(): the buffer
\* is allocated and bound to the local, whose previous buffer stays as it is.
ProcNew ==
    /\ running /\ current.op = "new"
    /\ serial' = serial + 1
    /\ refs' = [refs EXCEPT ![current.v] = serial + 1]
    /\ live' = live \cup {serial + 1}
    /\ ip' = ip + 1
    /\ UNCHANGED <<mode, numColors, hatchingStyle, counter, pending, outcome>>

\* An operation returns.
ProcCall ==
    /\ running /\ current.op = "call"
    /\ ip' = ip + 1
    /\ UNCHANGED <<mode, numColors, hatchingStyle, counter, serial, refs, live, pending, outcome>>

\* v.delete() returns: the buffer the local is bound to is released.
ProcDelete ==
    /\ running /\ current.op = "delete"
    /\ live' = live \ {refs[current.v]}
    /\ ip' = ip + 1
    /\ UNCHANGED <<mode, numColors, hatchingStyle, counter, serial, refs, pending, outcome>>

\* The test of a for loop.
ProcFor ==
    /\ running /\ current.op = "for"
    /\ ip' = IF counter[current.v] < loopBound(current.v, numColors) THEN ip + 1
             ELSE labelled(Extractor(mode), current.to)
    /\ UNCHANGED <<mode, numColors, hatchingStyle, counter, serial, refs, live, pending, outcome>>

\* The increment of a for loop.
ProcIncrement ==
    /\ running /\ current.op = "next"
    /\ counter' = [counter EXCEPT ![current.v] = @ + 1]
    /\ ip' = labelled(Extractor(mode), current.to)
    /\ UNCHANGED <<mode, numColors, hatchingStyle, serial, refs, live, pending, outcome>>

\* The switch (style) of generateHatching: only the contour style allocates.
ProcStyle ==
    /\ running /\ current.op = "unless"
    /\ ip' = IF hatchingStyle = current.v THEN ip + 1
             ELSE labelled(Extractor(mode), current.to)
    /\ UNCHANGED <<mode, numColors, hatchingStyle, counter, serial, refs, live, pending, outcome>>

\* The end of a try block: on to the finally block.
ProcLeaveTry ==
    /\ running /\ current.op = "goto"
    /\ ip' = labelled(Extractor(mode), current.to)
    /\ UNCHANGED <<mode, numColors, hatchingStyle, counter, serial, refs, live, pending, outcome>>

\* The statement at ip throws: control passes to its handler, or out of
\* process when it has none.  Nothing is allocated or released.
ProcThrow ==
    /\ running /\ mayThrow(current)
    /\ IF current.h = ""
       THEN outcome' = "threw" /\ UNCHANGED <<ip, counter, pending>>
       ELSE /\ ip' = labelled(Extractor(mode), current.h)
            /\ counter' = counter
            /\ pending' = (pending \/ current.pend)
            /\ outcome' = outcome
    /\ UNCHANGED <<mode, numColors, hatchingStyle, serial, refs, live>>

\* The extractor is left, and process with it: by return paths, or by the
\* exception that was pending in the finally block.
ProcReturn ==
    /\ running /\ current.op = "end"
    /\ outcome' = IF pending THEN "threw" ELSE "returned"
    /\ UNCHANGED <<mode, numColors, hatchingStyle, ip, counter, serial, refs, live, pending>>

(***************************************************************************)
(* VectorizationEngine.generateAdvancedHatching: the intensity levels      *)
(***************************************************************************)

\* The quantization loop: level = Math.floor(intensity / step) with
\* step = 255 / numColors, and level * step stored into the 8-bit matrix,
\* which drops its fraction.
quantize(g, n) ==
    [g EXCEPT !.data = [i \in DOMAIN g.data |->
                          LET lv == (g.data[i] * n) \div 255
                          IN  (lv * 255) \div n]]

\* targetIntensity + step / 2 for the level lv, as cv.threshold uses it on an
\* 8-bit matrix: rounded down.
levelThreshold(lv, n) == ((2 * lv + 1) * 255) \div (2 * n)

\* A variant with cv.THRESH_BINARY: 255 where the pixel is above thresh.
thresholdBinaryInv_Binary(q, thresh) ==
    [q EXCEPT !.data = [i \in DOMAIN q.data |-> IF q.data[i] > thresh THEN 255 ELSE 0]]

\* cv.threshold(src, dst, thresh, 255, cv.THRESH_BINARY_INV): 0 where the
\* pixel is above thresh, 255 elsewhere.
thresholdBinaryInv(q, thresh) ==
    [q EXCEPT !.data = [i \in DOMAIN q.data |-> IF q.data[i] > thresh THEN 0 ELSE 255]]

\* intensity = 1 - level / (numColors - 1), in fixed point.
levelIntensity(lv, n) == Scale - divS(lv * Scale, (n - 1) * Scale)

\* The paths of pixel positions, in fixed point.
toFixed(ps) ==
    [k \in 1..Len(ps) |-> [j \in 1..Len(ps[k]) |-> Pt(ps[k][j].x * Scale, ps[k][j].y * Scale)]]

\* cv.findContours on a level mask: no contour when the mask is empty.
contoursOf(m) ==
    IF \A i \in DOMAIN m.data : m.data[i] = 0 THEN <<>> ELSE findContours(rectOf(m))

\* AdvancedHatcher.generateHatching(mask, intensity, style, baseSpacing, angle,
\* width, height), with the generator state g; the paths are in fixed point.
generateHatching(m, intens, st, spacing0, ang, width, height, g) ==
    CASE st = "contour" ->
            [paths |-> generateContourHatching(contoursOf(m), intens, spacing0 * Scale),
             rng |-> g]
      [] st = "cross" ->
            LET out == generateCrossHatching(m, intens, spacing0 * Scale, ang, width, height, g)
            IN  [paths |-> toFixed(out.paths), rng |-> out.rng]
      [] st = "stippling" ->
            generateStippling(m, intens, spacing0 * Scale, width, height, g)
      [] OTHER ->
            [paths |-> toFixed(generateParallelHatching(m, intens, spacing0 * Scale, ang,
                                                        width, height)),
             rng |-> g]

\* The gray values of the rasters: black, a midtone and white.
Grays == {0, 100, 255}

\* The gray raster with the value d on the rectangle r and the lighter value
\* b elsewhere.
rasterOf(r, d, b) ==
    [cols |-> HatchWidth, rows |-> HatchHeight,
     data |-> [i \in 0..(HatchWidth * HatchHeight - 1) |->
                 LET x == i % HatchWidth
                     y == i \div HatchWidth
                 IN  IF x >= r.x0 /\ x <= r.x1 /\ y >= r.y0 /\ y <= r.y1 THEN d ELSE b]]

Rasters ==
    {rasterOf(t[1], t[2], t[3]) : t \in {u \in Rects \X Grays \X Grays : u[3] > u[2]}}

LevelAngles == {0, 45}

LvIdle ==
    /\ gray = [cols |-> 0, rows |-> 0, data |-> <<>>]
    /\ hatchOptions = [numColors |-> 0, hatchSpacing |-> 0, hatchAngle |-> 0,
                       hatchingStyle |-> "parallel"]
    /\ quantized = [cols |-> 0, rows |-> 0, data |-> <<>>]
    /\ level = 0
    /\ levelMasks = <<>>
    /\ levelIntensities = <<>>
    /\ levelPaths = <<>>
    /\ levelRng = 0
    /\ lpc = "idle"

\* generateAdvancedHatching(canvas, options, advancedOptions) is called; gray
\* is the raster after cv.cvtColor(src, gray, cv.COLOR_RGBA2GRAY).
LvRun ==
    /\ gray \in Rasters
    /\ hatchOptions \in [numColors : 2..MaxColors, hatchSpacing : {2},
                         hatchAngle : LevelAngles, hatchingStyle : Styles]
    /\ quantized = [cols |-> 0, rows |-> 0, data |-> <<>>]
    /\ level = 0
    /\ levelMasks = <<>>
    /\ levelIntensities = <<>>
    /\ levelPaths = <<>>
    /\ levelRng = 0
    /\ lpc = "quantize"

\* gray.copyTo(quantized) and the quantization loop.
LvQuantize ==
    /\ lpc = "quantize"
    /\ quantized' = quantize(gray, hatchOptions.numColors)
    /\ level' = 0
    /\ lpc' = "levels"
    /\ UNCHANGED <<gray, hatchOptions, levelMasks, levelIntensities, levelPaths, levelRng>>

\* One round of the for (level) loop: the mask and the intensity of the
\* level, the hatcher's paths pushed.
LvLevel ==
    /\ lpc = "levels"
    /\ level < hatchOptions.numColors - 1
    /\ LET n == hatchOptions.numColors
           intens == levelIntensity(level, n)
           m == thresholdBinaryInv(quantized, levelThreshold(level, n))
           out == generateHatching(m, intens, hatchOptions.hatchingStyle,
                                   hatchOptions.hatchSpacing, hatchOptions.hatchAngle,
                                   gray.cols, gray.rows, levelRng)
       IN  /\ levelMasks' = Append(levelMasks, m)
           /\ levelIntensities' = Append(levelIntensities, intens)
           /\ levelPaths' = levelPaths \o out.paths
           /\ levelRng' = out.rng
    /\ level' = level + 1
    /\ UNCHANGED <<gray, hatchOptions, quantized, lpc>>

\* The loop is over: return paths.
LvReturn ==
    /\ lpc = "levels"
    /\ ~(level < hatchOptions.numColors - 1)
    /\ lpc' = "done"
    /\ UNCHANGED <<gray, hatchOptions, quantized, level, levelMasks, levelIntensities,
                   levelPaths, levelRng>>

(***************************************************************************)
(* PathOptimizer.apply2Opt, statement by statement                         *)
(***************************************************************************)

\* The lists given to apply2Opt: three to MaxPaths + 1 polylines of the pool,
\* none of them empty.
TwoOptLists == UNION {[1..n -> PathPool \ {<<>>}] : n \in 3..(MaxPaths + 1)}

ToIdle ==
    /\ toPaths = <<>>
    /\ toMaxIterations = 0
    /\ toOrder = <<>>
    /\ bestDistance = 0
    /\ toImproved = FALSE
    /\ toIteration = 0
    /\ pair = <<0, 0>>
    /\ reversals = 0
    /\ toResult = <<>>
    /\ tpc = "idle"

ToRun ==
    /\ toPaths \in TwoOptLists
    /\ toMaxIterations \in IterChoices
    /\ toOrder = <<>>
    /\ bestDistance = 0
    /\ toImproved = FALSE
    /\ toIteration = 0
    /\ pair = <<0, 0>>
    /\ reversals = 0
    /\ toResult = <<>>
    /\ tpc = "call"

\* if (paths.length < 4) return paths
TwoOptShort ==
    /\ tpc = "call"
    /\ Len(toPaths) < 4
    /\ toResult' = toPaths
    /\ tpc' = "done"
    /\ UNCHANGED <<toPaths, toMaxIterations, toOrder, bestDistance, toImproved,
                   toIteration, pair, reversals>>

\* currentOrder, bestDistance, improved = true, iteration = 0
TwoOptBegin ==
    /\ tpc = "call"
    /\ ~(Len(toPaths) < 4)
    /\ toOrder' = [k \in 1..Len(toPaths) |-> k]
    /\ bestDistance' = calculatePathOrderDistance(toPaths, [k \in 1..Len(toPaths) |-> k])
    /\ toImproved' = TRUE
    /\ toIteration' = 0
    /\ tpc' = "while"
    /\ UNCHANGED <<toPaths, toMaxIterations, pair, reversals, toResult>>

\* A variant of the loop test without the cap: while (improved).
TwoOptPass_NoCap ==
    /\ tpc = "while"
    /\ toImproved
    /\ toImproved' = FALSE
    /\ pair' = <<1, 2>>
    /\ tpc' = "for"
    /\ UNCHANGED <<toPaths, toMaxIterations, toOrder, bestDistance, toIteration,
                   reversals, toResult>>

\* while (improved && iteration < maxIterations) { improved = false; i = 1; j = i + 1
TwoOptPass ==
    /\ tpc = "while"
    /\ toImproved /\ toIteration < toMaxIterations
    /\ toImproved' = FALSE
    /\ pair' = <<1, 2>>
    /\ tpc' = "for"
    /\ UNCHANGED <<toPaths, toMaxIterations, toOrder, bestDistance, toIteration,
                   reversals, toResult>>

\* if (j - i === 1) continue
TwoOptSkip ==
    /\ tpc = "for"
    /\ pair[1] < Len(toOrder) - 2
    /\ pair[2] < Len(toOrder)
    /\ pair[2] - pair[1] = 1
    /\ pair' = <<pair[1], pair[2] + 1>>
    /\ UNCHANGED <<toPaths, toMaxIterations, toOrder, bestDistance, toImproved,
                   toIteration, reversals, toResult, tpc>>

\* if (newDistance < bestDistance) { currentOrder = newOrder; ... }
TwoOptAccept ==
    /\ tpc = "for"
    /\ pair[1] < Len(toOrder) - 2
    /\ pair[2] < Len(toOrder)
    /\ pair[2] - pair[1] # 1
    /\ LET newOrder    == swap2Opt(toOrder, pair[1], pair[2])
           newDistance == calculatePathOrderDistance(toPaths, newOrder)
       IN  /\ newDistance < bestDistance
           /\ toOrder' = newOrder
           /\ bestDistance' = newDistance
    /\ toImproved' = TRUE
    /\ reversals' = reversals + 1
    /\ pair' = <<pair[1], pair[2] + 1>>
    /\ UNCHANGED <<toPaths, toMaxIterations, toIteration, toResult, tpc>>

\* The same test, failed: the order is kept.
TwoOptReject ==
    /\ tpc = "for"
    /\ pair[1] < Len(toOrder) - 2
    /\ pair[2] < Len(toOrder)
    /\ pair[2] - pair[1] # 1
    /\ ~(calculatePathOrderDistance(toPaths, swap2Opt(toOrder, pair[1], pair[2]))
            < bestDistance)
    /\ pair' = <<pair[1], pair[2] + 1>>
    /\ UNCHANGED <<toPaths, toMaxIterations, toOrder, bestDistance, toImproved,
                   toIteration, reversals, toResult, tpc>>

\* The end of the for (j) loop: i++, j = i + 1
TwoOptNextI ==
    /\ tpc = "for"
    /\ pair[1] < Len(toOrder) - 2
    /\ ~(pair[2] < Len(toOrder))
    /\ pair' = <<pair[1] + 1, pair[1] + 2>>
    /\ UNCHANGED <<toPaths, toMaxIterations, toOrder, bestDistance, toImproved,
                   toIteration, reversals, toResult, tpc>>

\* The end of the for (i) loop: iteration++
TwoOptPassEnd ==
    /\ tpc = "for"
    /\ ~(pair[1] < Len(toOrder) - 2)
    /\ toIteration' = toIteration + 1
    /\ tpc' = "while"
    /\ UNCHANGED <<toPaths, toMaxIterations, toOrder, bestDistance, toImproved,
                   pair, reversals, toResult>>

\* return currentOrder.map(index => paths[index])
TwoOptReturn ==
    /\ tpc = "while"
    /\ ~(toImproved /\ toIteration < toMaxIterations)
    /\ toResult' = [k \in 1..Len(toOrder) |-> toPaths[toOrder[k]]]
    /\ tpc' = "done"
    /\ UNCHANGED <<toPaths, toMaxIterations, toOrder, bestDistance, toImproved,
                   toIteration, pair, reversals>>

(***************************************************************************)
(* AdvancedHatcher.varyLineLength on the runs of a layer                   *)
(***************************************************************************)
MaxRun == 12

\* The runs of a horizontal hatch line: two points and more (a shorter run is
\* never pushed by generateParallelHatching).
Runs == {[k \in 1..n |-> Pt(k - 1, 0)] : n \in 2..MaxRun}

\* The factors 0.8 + Math.random() * 0.4, for every state of the generator.
LengthFactors == {(8 * Scale) \div 10 + mulS(rngValue(g), (4 * Scale) \div 10) :
                    g \in 0..(RandMod - 1)}

VlIdle ==
    /\ runPath = <<>>
    /\ lengthFactor = 0
    /\ variedPath = <<>>
    /\ vpc = "idle"

VlRun ==
    /\ runPath \in Runs
    /\ lengthFactor \in LengthFactors
    /\ variedPath = <<>>
    /\ vpc = "call"

\* layerPaths.map(path => this.varyLineLength(path, 0.8 + Math.random() * 0.4))
VaryLineLength ==
    /\ vpc = "call"
    /\ variedPath' = varyLineLength(runPath, lengthFactor)
    /\ vpc' = "done"
    /\ UNCHANGED <<runPath, lengthFactor>>

(***************************************************************************)
(* VectorizationEngine.processWithCurves                                   *)
(*                                                                         *)
(* The paths are the ones process returned.  A curve segment carries its   *)
(* type; of an arc the model keeps the start and the end, not the centre,  *)
(* the radius and the direction.  Whether tryConvertBezierToArc converts a *)
(* curve depends on a circle fit that is not modelled: either outcome is   *)
(* possible for every curve.                                               *)
(***************************************************************************)
\* A Bezier curve as a CurveSegment.
bezierSegment(c) ==
    [start |-> c.start, control1 |-> c.control1, control2 |-> c.control2,
     end |-> c.end, type |-> "bezier"]

\* The Arc tryConvertBezierToArc returns for a curve.
arcSegment(c) == [start |-> c.start, end |-> c.end, type |-> "arc"]

\* The inner for loop of pathsToCurveSegments, from i (0-based) on: the control
\* points at 0.33 and 0.67 of the way from start to end.
RECURSIVE lineSegments(_, _)
lineSegments(path, i) ==
    IF ~(i < Len(path) - 1) THEN <<>>
    ELSE LET start == path[i + 1]
             end   == path[i + 2]
             control1 == Pt(start.x + ((end.x - start.x) * 33) \div 100,
                            start.y + ((end.y - start.y) * 33) \div 100)
             control2 == Pt(start.x + ((end.x - start.x) * 67) \div 100,
                            start.y + ((end.y - start.y) * 67) \div 100)
         IN  <<bezierSegment(Bezier(start, control1, control2, end))>>
                 \o lineSegments(path, i + 1)

\* pathsToCurveSegments(paths)
RECURSIVE pathsToCurveSegments(_)
pathsToCurveSegments(ps) ==
    IF Len(ps) = 0 THEN <<>>
    ELSE (IF Len(ps[1]) < 2 THEN <<>> ELSE lineSegments(ps[1], 0))
             \o pathsToCurveSegments(Tail(ps))

\* The while loop of fitCurves, from the index i on; fitCurvesWith is the body
\* of the loop once findBestCurveFit has returned best.
RECURSIVE fitCurvesFrom(_, _, _)
fitCurvesWith(points, tol, i, best) ==
    IF best.found
    THEN <<best.curve>> \o fitCurvesFrom(points, tol, best.endIndex)
    ELSE IF i < Len(points) - 2
    THEN <<createSimpleBezier(points[i + 1], points[i + 2], points[i + 3])>>
             \o fitCurvesFrom(points, tol, i + 2)
    ELSE fitCurvesFrom(points, tol, i + 1)

fitCurvesFrom(points, tol, i) ==
    IF ~(i < Len(points) - 1) THEN <<>>
    ELSE CHOOSE cs \in {fitCurvesWith(points, tol, i, best) :
                            best \in {findBestCurveFit(points, i, tol)}} : TRUE

\* A variant that gives a path of two points one curve, from its start to its end.
fitCurves_LineForTwo(points, tol) ==
    IF Len(points) < 2 THEN <<>>
    ELSE IF Len(points) = 2
    THEN <<createSimpleBezier(points[1], points[1], points[2])>>
    ELSE fitCurvesFrom(points, tol, 0)

\* fitCurves(points, tolerance)
fitCurves(points, tol) ==
    IF Len(points) < 3 THEN <<>> ELSE fitCurvesFrom(points, tol, 0)

\* convertToArcs(curves, 1.0): converts[k] tells whether tryConvertBezierToArc
\* returns an arc for the k-th curve.
convertToArcs(cs, converts) ==
    [k \in 1..Len(cs) |->
        IF cs[k].type = "arc" THEN cs[k]
        ELSE IF converts[k] THEN arcSegment(cs[k]) ELSE cs[k]]

(***************************************************************************)
(* Inputs of processWithCurves                                             *)
(***************************************************************************)
MaxCurvePaths == 2

MaxCurveLen == 4

\* The paths process may return: empty, a single point, and the first points
\* of a zigzag.
CurvePathPool ==
    {<<>>, <<PtS(0, 0)>>}
    \cup {polylineOf(SubSeq(<<0, 1, 0, -1, 0, 1>>, 1, n)) : n \in 2..Min(MaxCurveLen, 6)}

\* curveTolerance 0 stands for an option left out.
AdvancedOptionSets ==
    [enableCurveFitting : BOOLEAN, enableArcConversion : BOOLEAN,
     curveTolerance : {0, Scale \div 10}]

PwcIdle ==
    /\ curvePaths = <<>>
    /\ advancedOptions = [enableCurveFitting |-> FALSE, enableArcConversion |-> FALSE,
                          curveTolerance |-> 0]
    /\ pathNo = 0
    /\ emitted = <<>>
    /\ allCurves = <<>>
    /\ wpc = "idle"

PwcRun ==
    /\ curvePaths \in UNION {[1..n -> CurvePathPool] : n \in 0..MaxCurvePaths}
    /\ advancedOptions \in AdvancedOptionSets
    /\ pathNo = 0
    /\ emitted = <<>>
    /\ allCurves = <<>>
    /\ wpc = "call"

\* if (!advancedOptions.enableCurveFitting) return this.pathsToCurveSegments(paths)
PwcLines ==
    /\ wpc = "call"
    /\ ~advancedOptions.enableCurveFitting
    /\ allCurves' = pathsToCurveSegments(curvePaths)
    /\ emitted' = [k \in 1..Len(curvePaths) |-> pathsToCurveSegments(<<curvePaths[k]>>)]
    /\ wpc' = "done"
    /\ UNCHANGED <<curvePaths, advancedOptions, pathNo>>

\* let allCurves = []; for (const path of paths)
PwcBegin ==
    /\ wpc = "call"
    /\ advancedOptions.enableCurveFitting
    /\ pathNo' = 1
    /\ wpc' = "for"
    /\ UNCHANGED <<curvePaths, advancedOptions, emitted, allCurves>>

\* curves = CurveFitter.fitCurves(path, advancedOptions.curveTolerance || 2.0);
\* allCurves.push(...curves)
PwcFit ==
    /\ wpc = "for"
    /\ pathNo <= Len(curvePaths)
    /\ \E fitted \in {fitCurves(curvePaths[pathNo],
                                 IF advancedOptions.curveTolerance = 0 THEN 2 * Scale
                                 ELSE advancedOptions.curveTolerance)} :
          LET typed == [k \in 1..Len(fitted) |-> bezierSegment(fitted[k])]
          IN  /\ allCurves' = allCurves \o typed
              /\ emitted' = Append(emitted, typed)
    /\ pathNo' = pathNo + 1
    /\ UNCHANGED <<curvePaths, advancedOptions, wpc>>

\* if (advancedOptions.enableArcConversion) allCurves = convertToArcs(allCurves, 1.0);
\* return allCurves
PwcArcs ==
    /\ wpc = "for"
    /\ ~(pathNo <= Len(curvePaths))
    /\ advancedOptions.enableArcConversion
    /\ \E converts \in [1..Len(allCurves) -> BOOLEAN] :
          allCurves' = convertToArcs(allCurves, converts)
    /\ wpc' = "done"
    /\ UNCHANGED <<curvePaths, advancedOptions, pathNo, emitted>>

\* return allCurves, the arc conversion not enabled
PwcReturn ==
    /\ wpc = "for"
    /\ ~(pathNo <= Len(curvePaths))
    /\ ~advancedOptions.enableArcConversion
    /\ wpc' = "done"
    /\ UNCHANGED <<curvePaths, advancedOptions, pathNo, emitted, allCurves>>

(***************************************************************************)
(* The ImageProcessor component                                            *)
(*                                                                         *)
(* The state of the component, the callback the two buttons defer with     *)
(* setTimeout, and the run of that callback on the event loop.  The        *)
(* callback calls VectorizationEngine.process, which returns or throws     *)
(* (the image read of every extractor is outside its try blocks); an       *)
(* exception leaves the callback, which has no try block, and is reported  *)
(* by the event loop.  React renders after every handler, so the disabled  *)
(* attribute of the buttons follows the state.                             *)
(***************************************************************************)
MaxClicks == 4

\* disabled={!image || isProcessing || !isOpenCVReady}
buttonsDisabled == ~imageLoaded \/ isProcessing \/ ~isOpenCVReady

\* The component before it is mounted, in the specifications of the routines.
IpIdle ==
    /\ imageLoaded = FALSE
    /\ isOpenCVReady = FALSE
    /\ isProcessing = FALSE
    /\ timer = "none"
    /\ callback = "unmounted"
    /\ task = "none"
    /\ clicks = 0
    /\ uncaught = 0
    /\ downloads = 0

\* useState(null), useState(false), useState(false)
IpRun ==
    /\ imageLoaded = FALSE
    /\ isOpenCVReady = FALSE
    /\ isProcessing = FALSE
    /\ timer = "none"
    /\ callback = "none"
    /\ task = "none"
    /\ clicks = 0
    /\ uncaught = 0
    /\ downloads = 0

mounted == callback # "unmounted"

\* handleImageUpload: reader.onload sets the image.
IpUpload ==
    /\ mounted
    /\ imageLoaded' = TRUE
    /\ UNCHANGED <<isOpenCVReady, isProcessing, timer, callback, task, clicks, uncaught, downloads>>

\* checkOpenCV finds cv.imread: setIsOpenCVReady(true)
IpOpenCVReady ==
    /\ mounted
    /\ ~isOpenCVReady
    /\ isOpenCVReady' = TRUE
    /\ UNCHANGED <<imageLoaded, isProcessing, timer, callback, task, clicks, uncaught, downloads>>

\* A click on a button that is not disabled: processAndPreview ("preview") or
\* generateAndDownloadGCode ("gcode") passes its guard, sets isProcessing and
\* defers its callback.
IpClick(which) ==
    /\ mounted
    /\ ~buttonsDisabled
    /\ clicks < MaxClicks
    /\ imageLoaded /\ isOpenCVReady
    /\ isProcessing' = TRUE
    /\ timer' = which
    /\ clicks' = clicks + 1
    /\ UNCHANGED <<imageLoaded, isOpenCVReady, callback, task, uncaught, downloads>>

IpClickPreview == IpClick("preview")

IpClickGCode == IpClick("gcode")

\* The timer fires: the callback redraws the image and calls process.
IpTimer ==
    /\ timer # "none"
    /\ callback = "none"
    /\ callback' = "process"
    /\ task' = timer
    /\ timer' = "none"
    /\ UNCHANGED <<imageLoaded, isOpenCVReady, isProcessing, clicks, uncaught, downloads>>

\* VectorizationEngine.process returns its paths.
IpProcess ==
    /\ callback = "process"
    /\ callback' = "sort"
    /\ UNCHANGED <<imageLoaded, isOpenCVReady, isProcessing, timer, task, clicks,
                   uncaught, downloads>>

\* VectorizationEngine.process throws: the exception leaves the callback, which
\* has no try block, before setIsProcessing(false).
IpThrow ==
    /\ callback = "process"
    /\ uncaught' = uncaught + 1
    /\ callback' = "none"
    /\ task' = "none"
    /\ UNCHANGED <<imageLoaded, isOpenCVReady, isProcessing, timer, clicks, downloads>>

\* VectorizationEngine.sortPathsForPrinting returns the sorted paths.
IpSort ==
    /\ callback = "sort"
    /\ callback' = "render"
    /\ UNCHANGED <<imageLoaded, isOpenCVReady, isProcessing, timer, task, clicks,
                   uncaught, downloads>>

\* processAndPreview: the preview is rendered, or an alert shown when there are
\* no paths; setIsProcessing(false).
IpPreviewDone ==
    /\ callback = "render"
    /\ task = "preview"
    /\ isProcessing' = FALSE
    /\ callback' = "none"
    /\ task' = "none"
    /\ UNCHANGED <<imageLoaded, isOpenCVReady, timer, clicks, uncaught, downloads>>

\* generateAndDownloadGCode: with paths, the preview is rendered and the G-code
\* generated and downloaded; without, an alert is shown; setIsProcessing(false).
IpGCodeDone ==
    /\ callback = "render"
    /\ task = "gcode"
    /\ \E found \in BOOLEAN : downloads' = IF found THEN downloads + 1 ELSE downloads
    /\ isProcessing' = FALSE
    /\ callback' = "none"
    /\ task' = "none"
    /\ UNCHANGED <<imageLoaded, isOpenCVReady, timer, clicks, uncaught>>

(***************************************************************************)
(* Specifications: one per routine, the other routines at rest             *)
(***************************************************************************)
OptInit == OptRun /\ ClIdle /\ HatchIdle /\ DpIdle /\ FitIdle /\ ProcIdle /\ LvIdle /\ ToIdle /\ VlIdle /\ PwcIdle /\ IpIdle

OptNext ==
    \/ OptEmpty /\ UNCHANGED <<clVars, hatchVars, dpVars, fitVars, procVars, lvVars, toVars, vlVars, pwcVars, ipVars>>
    \/ OptMerge /\ UNCHANGED <<clVars, hatchVars, dpVars, fitVars, procVars, lvVars, toVars, vlVars, pwcVars, ipVars>>
    \/ Opt2Opt /\ UNCHANGED <<clVars, hatchVars, dpVars, fitVars, procVars, lvVars, toVars, vlVars, pwcVars, ipVars>>
    \/ OptGreedy /\ UNCHANGED <<clVars, hatchVars, dpVars, fitVars, procVars, lvVars, toVars, vlVars, pwcVars, ipVars>>
    \/ OptAgain /\ UNCHANGED <<clVars, hatchVars, dpVars, fitVars, procVars, lvVars, toVars, vlVars, pwcVars, ipVars>>

SpecOpt == OptInit /\ [][OptNext]_vars

ClInit == ClRun /\ OptIdle /\ HatchIdle /\ DpIdle /\ FitIdle /\ ProcIdle /\ LvIdle /\ ToIdle /\ VlIdle /\ PwcIdle /\ IpIdle

ClNext ==
    \/ ClScan /\ UNCHANGED <<optVars, hatchVars, dpVars, fitVars, procVars, lvVars, toVars, vlVars, pwcVars, ipVars>>
    \/ ClSkip /\ UNCHANGED <<optVars, hatchVars, dpVars, fitVars, procVars, lvVars, toVars, vlVars, pwcVars, ipVars>>
    \/ ClStitch /\ UNCHANGED <<optVars, hatchVars, dpVars, fitVars, procVars, lvVars, toVars, vlVars, pwcVars, ipVars>>
    \/ ClReturn /\ UNCHANGED <<optVars, hatchVars, dpVars, fitVars, procVars, lvVars, toVars, vlVars, pwcVars, ipVars>>

SpecCenterline == ClInit /\ [][ClNext]_vars

HatchInit == HatchRun /\ OptIdle /\ ClIdle /\ DpIdle /\ FitIdle /\ ProcIdle /\ LvIdle /\ ToIdle /\ VlIdle /\ PwcIdle /\ IpIdle

HatchNext ==
    \/ HatchContour /\ UNCHANGED <<optVars, clVars, dpVars, fitVars, procVars, lvVars, toVars, vlVars, pwcVars, ipVars>>
    \/ HatchCross /\ UNCHANGED <<optVars, clVars, dpVars, fitVars, procVars, lvVars, toVars, vlVars, pwcVars, ipVars>>
    \/ HatchParallel /\ UNCHANGED <<optVars, clVars, dpVars, fitVars, procVars, lvVars, toVars, vlVars, pwcVars, ipVars>>

SpecHatch == HatchInit /\ [][HatchNext]_vars

DpInit == DpRun /\ OptIdle /\ ClIdle /\ HatchIdle /\ FitIdle /\ ProcIdle /\ LvIdle /\ ToIdle /\ VlIdle /\ PwcIdle /\ IpIdle

DpNext ==
    \/ DpSimplify /\ UNCHANGED <<optVars, clVars, hatchVars, fitVars, procVars, lvVars, toVars, vlVars, pwcVars, ipVars>>
    \/ DpAgain /\ UNCHANGED <<optVars, clVars, hatchVars, fitVars, procVars, lvVars, toVars, vlVars, pwcVars, ipVars>>

SpecSimplify == DpInit /\ [][DpNext]_vars

FitInit == FitRun /\ OptIdle /\ ClIdle /\ HatchIdle /\ DpIdle /\ ProcIdle /\ LvIdle /\ ToIdle /\ VlIdle /\ PwcIdle /\ IpIdle

FitNext ==
    \/ FitShort /\ UNCHANGED <<optVars, clVars, hatchVars, dpVars, procVars, lvVars, toVars, vlVars, pwcVars, ipVars>>
    \/ FitFind /\ UNCHANGED <<optVars, clVars, hatchVars, dpVars, procVars, lvVars, toVars, vlVars, pwcVars, ipVars>>
    \/ FitPush /\ UNCHANGED <<optVars, clVars, hatchVars, dpVars, procVars, lvVars, toVars, vlVars, pwcVars, ipVars>>
    \/ FitFallback /\ UNCHANGED <<optVars, clVars, hatchVars, dpVars, procVars, lvVars, toVars, vlVars, pwcVars, ipVars>>
    \/ FitSkip /\ UNCHANGED <<optVars, clVars, hatchVars, dpVars, procVars, lvVars, toVars, vlVars, pwcVars, ipVars>>
    \/ FitReturn /\ UNCHANGED <<optVars, clVars, hatchVars, dpVars, procVars, lvVars, toVars, vlVars, pwcVars, ipVars>>

SpecFit == FitInit /\ [][FitNext]_vars

ProcInit == ProcRun /\ OptIdle /\ ClIdle /\ HatchIdle /\ DpIdle /\ FitIdle /\ LvIdle /\ ToIdle /\ VlIdle /\ PwcIdle /\ IpIdle

ProcNext ==
    \/ ProcNew /\ UNCHANGED <<optVars, clVars, hatchVars, dpVars, fitVars, lvVars, toVars, vlVars, pwcVars, ipVars>>
    \/ ProcCall /\ UNCHANGED <<optVars, clVars, hatchVars, dpVars, fitVars, lvVars, toVars, vlVars, pwcVars, ipVars>>
    \/ ProcDelete /\ UNCHANGED <<optVars, clVars, hatchVars, dpVars, fitVars, lvVars, toVars, vlVars, pwcVars, ipVars>>
    \/ ProcFor /\ UNCHANGED <<optVars, clVars, hatchVars, dpVars, fitVars, lvVars, toVars, vlVars, pwcVars, ipVars>>
    \/ ProcIncrement /\ UNCHANGED <<optVars, clVars, hatchVars, dpVars, fitVars, lvVars, toVars, vlVars, pwcVars, ipVars>>
    \/ ProcStyle /\ UNCHANGED <<optVars, clVars, hatchVars, dpVars, fitVars, lvVars, toVars, vlVars, pwcVars, ipVars>>
    \/ ProcLeaveTry /\ UNCHANGED <<optVars, clVars, hatchVars, dpVars, fitVars, lvVars, toVars, vlVars, pwcVars, ipVars>>
    \/ ProcThrow /\ UNCHANGED <<optVars, clVars, hatchVars, dpVars, fitVars, lvVars, toVars, vlVars, pwcVars, ipVars>>
    \/ ProcReturn /\ UNCHANGED <<optVars, clVars, hatchVars, dpVars, fitVars, lvVars, toVars, vlVars, pwcVars, ipVars>>

SpecProcess == ProcInit /\ [][ProcNext]_vars

LvInit == LvRun /\ OptIdle /\ ClIdle /\ HatchIdle /\ DpIdle /\ FitIdle /\ ProcIdle /\ ToIdle /\ VlIdle /\ PwcIdle /\ IpIdle

LvNext ==
    \/ LvQuantize /\ UNCHANGED <<optVars, clVars, hatchVars, dpVars, fitVars, procVars, toVars, vlVars, pwcVars, ipVars>>
    \/ LvLevel /\ UNCHANGED <<optVars, clVars, hatchVars, dpVars, fitVars, procVars, toVars, vlVars, pwcVars, ipVars>>
    \/ LvReturn /\ UNCHANGED <<optVars, clVars, hatchVars, dpVars, fitVars, procVars, toVars, vlVars, pwcVars, ipVars>>

SpecLevels == LvInit /\ [][LvNext]_vars

StippleInit == StippleRun /\ OptIdle /\ ClIdle /\ DpIdle /\ FitIdle /\ ProcIdle /\ LvIdle /\ ToIdle /\ VlIdle /\ PwcIdle /\ IpIdle

StippleNext ==
    \/ HatchStippling /\ UNCHANGED <<optVars, clVars, dpVars, fitVars, procVars, lvVars, toVars, vlVars, pwcVars, ipVars>>

SpecStipple == StippleInit /\ [][StippleNext]_vars

TwiceInit == TwiceRun /\ OptIdle /\ ClIdle /\ DpIdle /\ FitIdle /\ ProcIdle /\ LvIdle /\ ToIdle /\ VlIdle /\ PwcIdle /\ IpIdle

TwiceNext ==
    \/ HatchContour /\ UNCHANGED <<optVars, clVars, dpVars, fitVars, procVars, lvVars, toVars, vlVars, pwcVars, ipVars>>
    \/ HatchCross /\ UNCHANGED <<optVars, clVars, dpVars, fitVars, procVars, lvVars, toVars, vlVars, pwcVars, ipVars>>
    \/ HatchStippling /\ UNCHANGED <<optVars, clVars, dpVars, fitVars, procVars, lvVars, toVars, vlVars, pwcVars, ipVars>>
    \/ HatchParallel /\ UNCHANGED <<optVars, clVars, dpVars, fitVars, procVars, lvVars, toVars, vlVars, pwcVars, ipVars>>
    \/ HatchAgain /\ UNCHANGED <<optVars, clVars, dpVars, fitVars, procVars, lvVars, toVars, vlVars, pwcVars, ipVars>>

SpecTwice == TwiceInit /\ [][TwiceNext]_vars

ToInit == ToRun /\ OptIdle /\ ClIdle /\ HatchIdle /\ DpIdle /\ FitIdle /\ ProcIdle /\ LvIdle /\ VlIdle /\ PwcIdle /\ IpIdle

ToNext ==
    \/ TwoOptShort /\ UNCHANGED <<optVars, clVars, hatchVars, dpVars, fitVars, procVars, lvVars, vlVars, pwcVars, ipVars>>
    \/ TwoOptBegin /\ UNCHANGED <<optVars, clVars, hatchVars, dpVars, fitVars, procVars, lvVars, vlVars, pwcVars, ipVars>>
    \/ TwoOptPass /\ UNCHANGED <<optVars, clVars, hatchVars, dpVars, fitVars, procVars, lvVars, vlVars, pwcVars, ipVars>>
    \/ TwoOptSkip /\ UNCHANGED <<optVars, clVars, hatchVars, dpVars, fitVars, procVars, lvVars, vlVars, pwcVars, ipVars>>
    \/ TwoOptAccept /\ UNCHANGED <<optVars, clVars, hatchVars, dpVars, fitVars, procVars, lvVars, vlVars, pwcVars, ipVars>>
    \/ TwoOptReject /\ UNCHANGED <<optVars, clVars, hatchVars, dpVars, fitVars, procVars, lvVars, vlVars, pwcVars, ipVars>>
    \/ TwoOptNextI /\ UNCHANGED <<optVars, clVars, hatchVars, dpVars, fitVars, procVars, lvVars, vlVars, pwcVars, ipVars>>
    \/ TwoOptPassEnd /\ UNCHANGED <<optVars, clVars, hatchVars, dpVars, fitVars, procVars, lvVars, vlVars, pwcVars, ipVars>>
    \/ TwoOptReturn /\ UNCHANGED <<optVars, clVars, hatchVars, dpVars, fitVars, procVars, lvVars, vlVars, pwcVars, ipVars>>

SpecTwoOpt == ToInit /\ [][ToNext]_vars

VlInit == VlRun /\ OptIdle /\ ClIdle /\ HatchIdle /\ DpIdle /\ FitIdle /\ ProcIdle /\ LvIdle /\ ToIdle /\ PwcIdle /\ IpIdle

VlNext ==
    \/ VaryLineLength /\ UNCHANGED <<optVars, clVars, hatchVars, dpVars, fitVars, procVars, lvVars, toVars, pwcVars, ipVars>>

SpecVary == VlInit /\ [][VlNext]_vars

PwcInit == PwcRun /\ OptIdle /\ ClIdle /\ HatchIdle /\ DpIdle /\ FitIdle /\ ProcIdle /\ LvIdle /\ ToIdle /\ VlIdle /\ IpIdle

PwcNext ==
    \/ PwcLines /\ UNCHANGED <<optVars, clVars, hatchVars, dpVars, fitVars, procVars, lvVars, toVars, vlVars, ipVars>>
    \/ PwcBegin /\ UNCHANGED <<optVars, clVars, hatchVars, dpVars, fitVars, procVars, lvVars, toVars, vlVars, ipVars>>
    \/ PwcFit /\ UNCHANGED <<optVars, clVars, hatchVars, dpVars, fitVars, procVars, lvVars, toVars, vlVars, ipVars>>
    \/ PwcArcs /\ UNCHANGED <<optVars, clVars, hatchVars, dpVars, fitVars, procVars, lvVars, toVars, vlVars, ipVars>>
    \/ PwcReturn /\ UNCHANGED <<optVars, clVars, hatchVars, dpVars, fitVars, procVars, lvVars, toVars, vlVars, ipVars>>

SpecCurves == PwcInit /\ [][PwcNext]_vars

IpInit == IpRun /\ OptIdle /\ ClIdle /\ HatchIdle /\ DpIdle /\ FitIdle /\ ProcIdle /\ LvIdle /\ ToIdle /\ VlIdle /\ PwcIdle

IpNext ==
    \/ IpUpload /\ UNCHANGED <<optVars, clVars, hatchVars, dpVars, fitVars, procVars, lvVars, toVars, vlVars, pwcVars>>
    \/ IpOpenCVReady /\ UNCHANGED <<optVars, clVars, hatchVars, dpVars, fitVars, procVars, lvVars, toVars, vlVars, pwcVars>>
    \/ IpClickPreview /\ UNCHANGED <<optVars, clVars, hatchVars, dpVars, fitVars, procVars, lvVars, toVars, vlVars, pwcVars>>
    \/ IpClickGCode /\ UNCHANGED <<optVars, clVars, hatchVars, dpVars, fitVars, procVars, lvVars, toVars, vlVars, pwcVars>>
    \/ IpTimer /\ UNCHANGED <<optVars, clVars, hatchVars, dpVars, fitVars, procVars, lvVars, toVars, vlVars, pwcVars>>
    \/ IpProcess /\ UNCHANGED <<optVars, clVars, hatchVars, dpVars, fitVars, procVars, lvVars, toVars, vlVars, pwcVars>>
    \/ IpThrow /\ UNCHANGED <<optVars, clVars, hatchVars, dpVars, fitVars, procVars, lvVars, toVars, vlVars, pwcVars>>
    \/ IpSort /\ UNCHANGED <<optVars, clVars, hatchVars, dpVars, fitVars, procVars, lvVars, toVars, vlVars, pwcVars>>
    \/ IpPreviewDone /\ UNCHANGED <<optVars, clVars, hatchVars, dpVars, fitVars, procVars, lvVars, toVars, vlVars, pwcVars>>
    \/ IpGCodeDone /\ UNCHANGED <<optVars, clVars, hatchVars, dpVars, fitVars, procVars, lvVars, toVars, vlVars, pwcVars>>

SpecComponent == IpInit /\ [][IpNext]_vars

\* fitCurves runs on until it returns: every step of it moves its position,
\* and it is not suspended before the return.  (The fairness is stated on the
\* position alone: every state before the return has a step of FitNext.)
fitCurvesRuns == fpc # "done" /\ fpc' \in {"found", "loop", "done"}

SpecFitFair == SpecFit /\ WF_fpc(fitCurvesRuns)

\* The event loop runs a timer that is due, and a callback that has started
\* runs on until it returns or throws.  Nothing makes the user click.
callbackRuns ==
    IpTimer \/ IpProcess \/ IpThrow \/ IpSort \/ IpPreviewDone \/ IpGCodeDone

SpecComponentFair == SpecComponent /\ WF_ipVars(callbackRuns)

(***************************************************************************)
(* Properties of optimizePaths                                             *)
(***************************************************************************)
NonEmptyInput == \A k \in 1..Len(paths) : Len(paths[k]) > 0

\* C1: with path merging disabled, whatever enable2Opt and maxIterations are,
\* the pen travel of the returned list is at most the pen travel of the input
\* list (and neither the 2-opt pass nor the greedy pass increases it).
C1_TravelNotIncreased ==
    ~options.enablePathMerging =>
        /\ opc \in {"step2", "step3", "done"} =>
              calculateTotalTravelDistance(optimizedPaths)
                  <= calculateTotalTravelDistance(paths)
        /\ opc = "done" =>
              /\ calculateTotalTravelDistance(result.paths)
                    <= calculateTotalTravelDistance(paths)
              /\ result.totalDistance <= originalDistance

\* C1 witness: a call without merging, on four or more paths, that returned a
\* list with strictly less pen travel than the input.
C1_Witness ==
    /\ opc = "done"
    /\ ~options.enablePathMerging
    /\ Len(paths) >= 4
    /\ calculateTotalTravelDistance(result.paths) < calculateTotalTravelDistance(paths)

\* C2: for every list of (non-empty) polylines and every option combination,
\* merging included, the pen travel of the returned list is no greater than
\* that of the input list, and the reported improvement is never negative.
C2_NeverWorse ==
    (opc = "done" /\ NonEmptyInput) =>
        /\ calculateTotalTravelDistance(result.paths)
              <= calculateTotalTravelDistance(paths)
        /\ result.improvement.num >= 0

\* C3 as stated: optimizing the returned list again, with the same options,
\* returns a list of the same pen travel.
C3_Idempotent ==
    opc = "again" => again.totalDistance = result.totalDistance

\* C3 as amended: optimizing the returned list again never increases the pen
\* travel, and leaves it equal when enable2Opt is false.
C3_SecondRunNotWorse ==
    opc = "again" =>
        /\ again.totalDistance <= result.totalDistance
        /\ ~options.enable2Opt => again.totalDistance = result.totalDistance

\* C3 witness: a second run that returned strictly less pen travel than the first.
C3_Witness ==
    /\ opc = "again"
    /\ NonEmptyInput
    /\ again.totalDistance < result.totalDistance

\* The number of points of the paths of a list.
RECURSIVE pointCount(_)
pointCount(ps) == IF Len(ps) = 0 THEN 0 ELSE Len(ps[1]) + pointCount(Tail(ps))

\* The smallest of the four endpoint pairings of two non-empty paths.
smallestPairing(a, b) ==
    LET dists == {distance(e1, e2) : e1 \in {a[1], Last(a)}, e2 \in {b[1], Last(b)}}
    IN  CHOOSE d \in dists : \A e \in dists : d <= e

\* The path merged is one input after the other, each as it is or reversed,
\* and the two points at the splice are at the distance d.
IsSpliceAt(merged, a, b, d) ==
    \E first \in {a, Reverse(a)}, second \in {b, Reverse(b)} :
        \/ merged = first \o second /\ distance(Last(first), second[1]) = d
        \/ merged = second \o first /\ distance(Last(second), first[1]) = d

\* C15: merging two non-empty polylines whose smallest endpoint pairing is
\* within the threshold gives one polyline with every point of both, each
\* input contiguous and in its own or in reversed order, the endpoints of the
\* smallest pairing adjacent at the splice; there is no merge when the
\* smallest pairing exceeds the threshold (seen on the merge pass of a list
\* of two paths).  The merge pass loses and adds no point, and the two paths
\* of scenario S2 become (0,0),(10,0),(11,0),(20,0).
C15_MergeSplicesEndpoints ==
    /\ (/\ opc = "step2" /\ options.enablePathMerging
        /\ Len(paths) = 2 /\ Len(paths[1]) > 0 /\ Len(paths[2]) > 0) =>
          IF smallestPairing(paths[1], paths[2]) <= options.mergeThreshold
          THEN /\ Len(optimizedPaths) = 1
               /\ IsSpliceAt(optimizedPaths[1], paths[1], paths[2],
                             smallestPairing(paths[1], paths[2]))
          ELSE optimizedPaths = paths
    /\ (opc = "step2") => pointCount(optimizedPaths) = pointCount(paths)
    /\ (opc = "step2" /\ paths = ScenarioS2 /\ options.enablePathMerging) =>
          optimizedPaths = << <<Pt(0, 0), Pt(10, 0), Pt(11, 0), Pt(20, 0)>> >>

\* C15 witness: the merge pass has joined the second path, reversed, to the
\* reversed first path: their closest ends were the start of the first and
\* the end of the second.
C15_Witness ==
    /\ opc = "step2"
    /\ options.enablePathMerging
    /\ Len(paths) = 2
    /\ Len(paths[1]) > 0 /\ Len(paths[2]) > 0
    /\ optimizedPaths = << Reverse(paths[1]) \o Reverse(paths[2]) >>
    /\ paths[1] # Reverse(paths[1])
    /\ distance(paths[1][1], Last(paths[2])) < distance(Last(paths[1]), paths[2][1])

\* C16: scenario S3: 2-opt with at least one iteration swaps the second and
\* the third path, and the pen travel falls from about 200 to about 22.
C16_S3Swapped ==
    (opc = "step3" /\ paths = ScenarioS3 /\ ~options.enablePathMerging /\ options.enable2Opt) =>
        /\ optimizedPaths = <<paths[1], paths[3], paths[2], paths[4]>>
        /\ calculateTotalTravelDistance(optimizedPaths) < calculateTotalTravelDistance(paths)

\* C17: optimizePaths reports as totalDistance the pen travel of the list it
\* returns, and as improvement (original - final) / original * 100, original
\* being the pen travel of the input list, or 0 when original is 0; for the
\* empty list it returns {paths: [], totalDistance: 0, improvement: 0}.
C17_ReportedFigures ==
    (opc = "done") =>
        LET original == calculateTotalTravelDistance(paths)
            final    == calculateTotalTravelDistance(result.paths)
        IN  /\ result.totalDistance = final
            /\ IF original = 0 THEN result.improvement.num = 0
               ELSE result.improvement.num * original
                        = (original - final) * 100 * result.improvement.den
            /\ result.improvement.den > 0
            /\ (paths = <<>>) =>
                  /\ result.paths = <<>>
                  /\ result.totalDistance = 0
                  /\ result.improvement.num = 0

\* C17 witness: a call that returned a list of less pen travel than given,
\* with an improvement between 0 and 100 per cent.
C17_Witness ==
    /\ opc = "done"
    /\ result.totalDistance > 0
    /\ result.totalDistance < calculateTotalTravelDistance(paths)
    /\ result.improvement.num > 0
    /\ result.improvement.num < 100 * result.improvement.den

(***************************************************************************)
(* Properties of generateHatching                                          *)
(***************************************************************************)
\* The point p, with integer coordinates, is a pixel of the mask with a
\* non-zero value.
onMask(p) ==
    /\ p.x \in 0..(mask.cols - 1)
    /\ p.y \in 0..(mask.rows - 1)
    /\ mask.data[p.y * mask.cols + p.x] # 0

\* C5: every vertex of every path emitted by Parallel hatching and by Cross
\* hatching is an in-bounds pixel position whose mask value is non-zero.
C5_HatchClippedToMask ==
    (hpc = "done" /\ style \in {"parallel", "cross"}) =>
        \A k \in 1..Len(hatchPaths) : \A j \in 1..Len(hatchPaths[k]) :
            onMask(hatchPaths[k][j])

\* C5 witness: cross hatching of a mask with a cleared pixel returned a path
\* of a diagonal layer, and parallel hatching a mask with a cleared pixel
\* returned two paths or more.
C5_Witness ==
    /\ hpc = "done"
    /\ mask \notin RectMasks
    /\ \/ /\ style = "cross"
          /\ \E k \in 1..Len(hatchPaths) :
                /\ Len(hatchPaths[k]) >= 2
                /\ hatchPaths[k][1].x # hatchPaths[k][2].x
                /\ hatchPaths[k][1].y # hatchPaths[k][2].y
       \/ /\ style = "parallel"
          /\ Len(hatchPaths) >= 2

\* The point p, in fixed point, is within one pixel, along both axes, of a
\* pixel of the mask with a non-zero value.
nearMask(p) ==
    \E x \in 0..(mask.cols - 1), y \in 0..(mask.rows - 1) :
        /\ mask.data[y * mask.cols + x] # 0
        /\ Abs(p.x - x * Scale) <= Scale
        /\ Abs(p.y - y * Scale) <= Scale

\* C6: every vertex of every path emitted by Contour hatching lies inside the
\* supplied mask, up to 1-pixel tolerance.
C6_ContourInsideMask ==
    (hpc = "done" /\ style = "contour") =>
        \A k \in 1..Len(hatchPaths) : \A j \in 1..Len(hatchPaths[k]) :
            nearMask(hatchPaths[k][j])

(***************************************************************************)
(* Properties of traceCenterlines                                          *)
(***************************************************************************)
\* Every run of the raster.
RunIds ==
    {id \in (0..(Len(segmentsByRow) - 1)) \X (1..CLWidth) :
        id[2] <= Len(segmentsByRow[id[1] + 1])}

\* How many times the run id occurs in the paths of the list ps.
RECURSIVE occurrences(_, _)
occurrences(ps, id) ==
    IF Len(ps) = 0 THEN 0
    ELSE Cardinality({k \in 1..Len(ps[1]) : ps[1][k] = id}) + occurrences(Tail(ps), id)

\* C4: every horizontal run of the raster is in at most one path built by the
\* stitcher, kept or dropped: a run of a path dropped for having fewer than 3
\* runs is in no kept path; and the runs in paths are exactly the used ones.
C4_RunInAtMostOnePath ==
    \A id \in RunIds :
        /\ occurrences(allPaths \o droppedPaths, id) <= 1
        /\ occurrences(allPaths \o droppedPaths, id) = 1 <=> segAt(segmentsByRow, id).used

\* C4 witness: the extractor returned at least one path after dropping a path
\* that had consumed a second run.
C4_Witness ==
    /\ cpc = "done"
    /\ Len(allPaths) >= 1
    /\ \E k \in 1..Len(droppedPaths) : Len(droppedPaths[k]) = 2


(***************************************************************************)
(* Properties of douglasPeucker                                            *)
(***************************************************************************)
\* C7: Douglas-Peucker simplification is idempotent: for every polyline and
\* every epsilon (a tolerance, not negative), applying douglasPeucker with the
\* same epsilon to its own result gives that result again, point by point.
C7_Idempotent ==
    dpc = "again" =>
        /\ Len(resimplified) = Len(simplified)
        /\ \A k \in 1..Len(simplified) : resimplified[k] = simplified[k]

\* C7 witness: the second application was given a result of three points or
\* more from which the first application had dropped a point.
C7_Witness ==
    /\ dpc = "again"
    /\ Len(simplified) >= 3
    /\ Len(simplified) < Len(dpPoints)
    /\ resimplified = simplified

\* The k-th smallest element of the set S of integers.
kthOf(S, k) == CHOOSE i \in S : Cardinality({j \in S : j <= i}) = k

\* out is a subsequence of inp that keeps its first and its last element.
IsSubsequenceKeepingEnds(out, inp) ==
    \E S \in SUBSET (1..Len(inp)) :
        /\ 1 \in S
        /\ Len(inp) \in S
        /\ Len(out) = Cardinality(S)
        /\ \A k \in 1..Len(out) : out[k] = inp[kthOf(S, k)]

\* The point p is farther than eps from the chord from a to b (from the point
\* a when b = a).
fartherThan(p, a, b, eps) ==
    LET dx == b.x - a.x
        dy == b.y - a.y
        cross == dx * (p.y - a.y) - dy * (p.x - a.x)
    IN  IF dx = 0 /\ dy = 0
        THEN ((p.x - a.x) * (p.x - a.x) + (p.y - a.y) * (p.y - a.y)) * eps.den * eps.den
                 > eps.num * eps.num
        ELSE cross * cross * eps.den * eps.den > eps.num * eps.num * (dx * dx + dy * dy)

\* C8: douglasPeucker returns an input of 2 or fewer points verbatim; for an
\* input of more than 2 points it returns a subsequence of the input of length
\* at least 2 that keeps the first and the last input point, and exactly
\* [first, last] when no interior point is farther than epsilon from the
\* chord; [(0,0),(1,0.1),(2,0),(3,-0.1),(10,0)] with 0.5 gives [(0,0),(10,0)].
C8_SubsequenceKeepingEnds ==
    dpc \in {"done", "again"} =>
        /\ Len(dpPoints) <= 2 => simplified = dpPoints
        /\ Len(dpPoints) > 2 =>
              /\ Len(simplified) >= 2
              /\ IsSubsequenceKeepingEnds(simplified, dpPoints)
              /\ (\A k \in 2..(Len(dpPoints) - 1) :
                      ~fartherThan(dpPoints[k], dpPoints[1], dpPoints[Len(dpPoints)],
                                   epsilon))
                    => simplified = <<dpPoints[1], dpPoints[Len(dpPoints)]>>
        /\ (dpPoints = WavyLine /\ epsilon = WavyEpsilon)
              => simplified = <<Pt(0, 0), Pt(100, 0)>>

\* C8 witness: the wavy line came back as its two ends.
C8_Witness ==
    /\ dpc = "done"
    /\ dpPoints = WavyLine
    /\ epsilon = WavyEpsilon
    /\ Len(simplified) = 2

(***************************************************************************)
(* Properties of fitCurves                                                 *)
(***************************************************************************)
\* C9: Bezier fitting preserves the polyline's endpoints: for every polyline
\* of at least 3 points and every tolerance, fitCurves returns a non-empty
\* list whose first curve's start equals the polyline's first point and whose
\* last curve's end equals the polyline's last point.
C9_EndpointsPreserved ==
    (fpc = "done" /\ Len(fitPoints) >= 3) =>
        /\ Len(curves) >= 1
        /\ curves[1].start = fitPoints[1]
        /\ curves[Len(curves)].end = fitPoints[Len(fitPoints)]

\* C10: round trip of curve fitting: for every cubic, every n >= 4 and every
\* tolerance, fitCurves applied to the n points sampled from the cubic returns
\* exactly one Bezier segment, whose error on the n points is at most the
\* tolerance.
C10_RoundTrip ==
    (fpc = "done" /\ sampled) =>
        /\ Len(curves) = 1
        /\ withinTolerance(calculateCurveError(fitPoints, curves[1]), Len(fitPoints),
                           tolerance)

(***************************************************************************)
(* Properties of process and its extractors                                *)
(***************************************************************************)

\* C11: every buffer an extractor allocates is released before the extractor
\* is left, by return or by an exception, whichever operation threw.
C11_BuffersReleased == (outcome \in {"returned", "threw"}) => live = {}

\* C12: no exception leaves process, whichever operation fails: process
\* always returns a list of paths.
C12_NeverThrows == outcome # "threw"

\* C13: with numColors outside its documented range process reports invalid
\* input instead of returning a list of paths.
C13_InvalidInputReported == (numColors < MinColors) => outcome # "returned"

(***************************************************************************)
(* Properties of generateAdvancedHatching                                  *)
(***************************************************************************)

\* C14: every vertex of every path returned by process (here in Hatching
\* mode, for every hatching style) has x in [0, width - 1] and y in
\* [0, height - 1].
C14_VerticesInRaster ==
    (lpc = "done") =>
        \A k \in 1..Len(levelPaths) : \A j \in 1..Len(levelPaths[k]) :
            /\ levelPaths[k][j].x >= 0 /\ levelPaths[k][j].x <= (gray.cols - 1) * Scale
            /\ levelPaths[k][j].y >= 0 /\ levelPaths[k][j].y <= (gray.rows - 1) * Scale

\* The intensity v, in fixed point, is 1 - lv / (n - 1) up to the rounding of
\* the fixed point.
isLevelIntensity(v, lv, n) == Abs(v * (n - 1) - (n - 1 - lv) * Scale) < n - 1

\* C19 as stated: for each level L, taken in ascending order, the mask passed
\* to the hatcher holds exactly the pixels whose quantized gray value is at
\* least (L + 0.5) * step, step = 255 / numColors, and the intensity passed
\* is 1 - L / (numColors - 1).
C19_MaskAtOrAboveLevel ==
    \A k \in 1..Len(levelMasks) :
        LET n == hatchOptions.numColors
        IN  /\ \A i \in DOMAIN quantized.data :
                  (levelMasks[k].data[i] # 0) <=>
                      (2 * n * quantized.data[i] >= (2 * (k - 1) + 1) * 255)
            /\ isLevelIntensity(levelIntensities[k], k - 1, n)

\* C19 amended: for each level L in [0, numColors - 2], taken in ascending
\* order, the mask passed to the hatcher holds exactly the pixels whose
\* quantized gray value is at most (L + 0.5) * step, step = 255 / numColors
\* (the pixels as dark as the level or darker), and the intensity passed is
\* 1 - L / (numColors - 1).
C19_MaskAtOrBelowLevel ==
    /\ Len(levelMasks) = level
    /\ Len(levelIntensities) = level
    /\ level <= Max(hatchOptions.numColors - 1, 0)
    /\ (lpc = "done") => level = hatchOptions.numColors - 1
    /\ \A k \in 1..Len(levelMasks) :
        LET n == hatchOptions.numColors
        IN  /\ \A i \in DOMAIN quantized.data :
                  (levelMasks[k].data[i] # 0) <=>
                      (2 * n * quantized.data[i] <= (2 * (k - 1) + 1) * 255)
            /\ isLevelIntensity(levelIntensities[k], k - 1, n)

\* C19 witness: three tone levels; the hatcher was given the mask of the
\* dark rectangle at level 0 and a larger mask at level 1, with the
\* intensities 1 and 1/2.
C19_Witness ==
    /\ lpc = "done"
    /\ Len(levelMasks) = 2
    /\ \E i, j \in DOMAIN quantized.data :
          /\ levelMasks[1].data[i] # 0
          /\ levelMasks[1].data[j] = 0
          /\ levelMasks[2].data[j] # 0
    /\ levelIntensities = <<Scale, Scale \div 2>>

(***************************************************************************)
(* Properties of generateStippling                                         *)
(***************************************************************************)

\* The point p, in fixed point, lies in a pixel of the mask with a non-zero
\* value.
inMaskPixel(p) ==
    /\ p.x >= 0
    /\ p.y >= 0
    /\ onMask(Pt(p.x \div Scale, p.y \div Scale))

\* C18 as stated: every dot emitted by stippling is a 2-point path, and on a
\* rectangular mask of the pixels x0..x1 by y0..y1 its first vertex satisfies
\* x0 <= x <= x1 and y0 <= y <= y1.
C18_FirstVertexWithinCorners ==
    (hpc = "done" /\ style = "stippling") =>
        \A k \in 1..Len(hatchPaths) :
            /\ Len(hatchPaths[k]) = 2
            /\ hatchPaths[k][1].x >= rectOf(mask).x0 * Scale
            /\ hatchPaths[k][1].x <= rectOf(mask).x1 * Scale
            /\ hatchPaths[k][1].y >= rectOf(mask).y0 * Scale
            /\ hatchPaths[k][1].y <= rectOf(mask).y1 * Scale

\* C18: every dot emitted by stippling is a 2-point path whose first vertex
\* lies in a pixel of the mask with a non-zero value; on a rectangular mask
\* of the pixels x0..x1 by y0..y1 the first vertex satisfies x0 <= x < x1 + 1
\* and y0 <= y < y1 + 1.
C18_FirstVertexInMaskPixel ==
    (hpc = "done" /\ style = "stippling") =>
        \A k \in 1..Len(hatchPaths) :
            /\ Len(hatchPaths[k]) = 2
            /\ inMaskPixel(hatchPaths[k][1])
            /\ hatchPaths[k][1].x >= rectOf(mask).x0 * Scale
            /\ hatchPaths[k][1].x < (rectOf(mask).x1 + 1) * Scale
            /\ hatchPaths[k][1].y >= rectOf(mask).y0 * Scale
            /\ hatchPaths[k][1].y < (rectOf(mask).y1 + 1) * Scale

\* C18 witness: stippling of a mask that leaves part of the canvas out
\* returned a dot whose first vertex is past the last column's left edge.
C18_Witness ==
    /\ hpc = "done"
    /\ style = "stippling"
    /\ \E i \in DOMAIN mask.data : mask.data[i] = 0
    /\ \E k \in 1..Len(hatchPaths) :
          /\ Len(hatchPaths[k]) = 2
          /\ hatchPaths[k][1].x > rectOf(mask).x1 * Scale
          /\ inMaskPixel(hatchPaths[k][1])

(***************************************************************************)
(* Properties of two calls with the same arguments                         *)
(***************************************************************************)

\* C20: two calls of the hatcher with the same mask, intensity, style,
\* spacing and angle return identical path lists, for every hatching style.
C20_SamePathsTwice ==
    (hpc = "again") => secondPaths = hatchPaths

(***************************************************************************)
(* Properties of mergePaths                                                *)
(***************************************************************************)

\* The two-point pieces of a path made of two-point paths, one after the other.
piecesOf(p) == [k \in 1..(Len(p) \div 2) |-> {p[2 * k - 1], p[2 * k]}]

\* The number of paths of the list whose pieces include e, counted with
\* their multiplicity.
RECURSIVE pieceCount(_, _)
pieceCount(ps, e) ==
    IF Len(ps) = 0 THEN 0
    ELSE Cardinality({k \in 1..Len(piecesOf(ps[1])) : piecesOf(ps[1])[k] = e})
         + pieceCount(Tail(ps), e)

\* The sequence a occurs in the sequence b, contiguously.
IsInfix(a, b) ==
    \E off \in 0..(Len(b) - Len(a)) : \A k \in 1..Len(a) : b[off + k] = a[k]

\* The lowest index of a path that can be merged with the first one, or 0.
firstMergeable(ps, thr) ==
    LET cand == {j \in 2..Len(ps) : tryMergePaths(ps[1], ps[j], thr).ok}
    IN  IF cand = {} THEN 0 ELSE CHOOSE j \in cand : \A m \in cand : j <= m

\* C21: after the merge pass every (two-point) input path is a piece of the
\* output exactly as many times as it is in the input, no output path is
\* empty, and the first output path holds the merge of the first input path
\* with the lowest-index path that can be merged with it.
C21_EveryPathOnceEmptiesDropped ==
    (opc = "step2" /\ options.enablePathMerging) =>
        /\ \A k \in 1..Len(paths) :
              Len(paths[k]) = 2 =>
                 pieceCount(optimizedPaths, {paths[k][1], paths[k][2]})
                     = pieceCount(paths, {paths[k][1], paths[k][2]})
        /\ \A k \in 1..Len(optimizedPaths) : Len(optimizedPaths[k]) > 0
        /\ (Len(paths) >= 2 /\ firstMergeable(paths, options.mergeThreshold) # 0) =>
              LET j == firstMergeable(paths, options.mergeThreshold)
                  m == tryMergePaths(paths[1], paths[j], options.mergeThreshold).path
              IN  \/ IsInfix(m, optimizedPaths[1])
                  \/ IsInfix(Reverse(m), optimizedPaths[1])

(***************************************************************************)
(* Properties of apply2Opt                                                 *)
(***************************************************************************)

\* The pen travel of the list in the current order.
orderTravel == calculatePathOrderDistance(toPaths, toOrder)

\* The cap, the bookkeeping and the local optimum of apply2Opt: there are at
\* most maxIterations passes; the travel of the current order is
\* bestDistance; and when the pass returns before the cap, no reversal of
\* order[i..j] with 1 <= i and i + 2 <= j <= len - 1 strictly improves the
\* travel of the order returned, whose paths are the list returned.
cappedAndLocallyOptimal ==
    /\ toIteration <= toMaxIterations
    /\ (tpc \in {"while", "for", "done"} /\ Len(toPaths) >= 4) =>
          /\ bestDistance = orderTravel
          /\ reversals = 0 => toOrder = [k \in 1..Len(toPaths) |-> k]
    /\ (tpc = "done" /\ Len(toPaths) >= 4 /\ toIteration < toMaxIterations) =>
          /\ \A i \in 1..(Len(toOrder) - 1), j \in 1..(Len(toOrder) - 1) :
                (i + 2 <= j) =>
                    ~(calculatePathOrderDistance(toPaths, swap2Opt(toOrder, i, j))
                        < orderTravel)
          /\ toResult = [k \in 1..Len(toOrder) |-> toPaths[toOrder[k]]]

\* A step that changes the order is an accepted reversal, and strictly
\* decreases the travel of the order.
reversalDecreases ==
    (toOrder' # toOrder /\ tpc = "for") =>
        /\ reversals' = reversals + 1
        /\ calculatePathOrderDistance(toPaths, toOrder')
              < calculatePathOrderDistance(toPaths, toOrder)

\* C22: the 2-opt pass makes at most maxIterations passes; every accepted
\* reversal strictly decreases the end-to-start travel of the order; and when
\* the pass returns before the cap, no reversal of order[i..j] with 1 <= i
\* and i + 2 <= j <= len - 1 strictly improves the travel of the order
\* returned.
C22_TwoOptPasses == []cappedAndLocallyOptimal /\ [][reversalDecreases]_vars

\* C22 witness: a return before the cap, after two passes or more and an
\* accepted reversal, on five paths or more.
C22_Witness ==
    /\ tpc = "done"
    /\ Len(toPaths) >= 5
    /\ toIteration >= 2
    /\ toIteration < toMaxIterations
    /\ reversals >= 1

(***************************************************************************)
(* Properties of greedyImprovement                                         *)
(***************************************************************************)

\* The local travel around the adjacent pair (i, i + 1) of the list, and the
\* same with the pair swapped (i is 1-based).
localTravel(ps, i) ==
    calculateTravelBetween(ps[i], ps[i + 1],
                           IF i > 1 THEN ps[i - 1] ELSE <<>>,
                           IF i + 2 <= Len(ps) THEN ps[i + 2] ELSE <<>>)

swappedTravel(ps, i) ==
    calculateTravelBetween(ps[i + 1], ps[i],
                           IF i > 1 THEN ps[i - 1] ELSE <<>>,
                           IF i + 2 <= Len(ps) THEN ps[i + 2] ELSE <<>>)

\* C23: the greedy pass returns, for every list, and no swap of an adjacent
\* pair of the list returned strictly reduces its local travel.
C23_NoImprovingAdjacentSwap ==
    (opc = "done") =>
        \A i \in 1..(Len(result.paths) - 1) :
            ~(swappedTravel(result.paths, i) < localTravel(result.paths, i))

(***************************************************************************)
(* Properties of varyLineLength                                            *)
(***************************************************************************)

\* C24: for every run of a layer and every factor in [0.8, 1.2), the
\* length-varied path has at least 2 points and is a contiguous sub-run of
\* the run, centred in it (the points trimmed at the two ends differ by one
\* at most).
C24_CentredSubRun ==
    (vpc = "done") =>
        /\ Len(variedPath) >= 2
        /\ \E off \in 0..(Len(runPath) - Len(variedPath)) :
              /\ \A k \in 1..Len(variedPath) : variedPath[k] = runPath[off + k]
              /\ LET right == Len(runPath) - Len(variedPath) - off
                 IN  off - right \in {-1, 0, 1}

(***************************************************************************)
(* Properties of the loop of fitCurves                                     *)
(***************************************************************************)

\* Every curve pushed runs from an input point to a later one, and starts
\* where the curve before it ends.
curvesChained ==
    /\ \A k \in 1..Len(curves) :
          \E a \in 1..Len(fitPoints), b \in 1..Len(fitPoints) :
              /\ a < b
              /\ curves[k].start = fitPoints[a]
              /\ curves[k].end = fitPoints[b]
    /\ \A k \in 2..Len(curves) : curves[k].start = curves[k - 1].end
    /\ (fpc = "found" /\ Len(curves) > 0) => curves[Len(curves)].end = fitPoints[fi + 1]

\* The window start only moves to the right.
windowAdvances == (fi' # fi) => (fi' > fi)

\* C25: fitCurves returns, the window start index strictly increases, every
\* curve runs from an input point to a later input point, and every curve
\* starts where the curve before it ends.
C25_LeftToRightChain ==
    /\ <>(fpc = "done")
    /\ []curvesChained
    /\ [][windowAdvances]_vars

\* C25 witness: fitCurves returned two curves or more, the first one a
\* fitted window of four points or more, the second one starting where the
\* first one ends.
C25_Witness ==
    /\ fpc = "done"
    /\ Len(curves) >= 2
    /\ \E a \in 4..Len(fitPoints) :
          /\ curves[1].start = fitPoints[1]
          /\ curves[1].end = fitPoints[a]
          /\ curves[2].start = fitPoints[a]


\* C26: after the merge pass no two distinct output paths have one of their
\* four endpoint pairings within the threshold, and the merge pass applied
\* to its own output returns it unchanged.
C26_NothingLeftToMerge ==
    (opc = "step2" /\ options.enablePathMerging) =>
        /\ \A a \in 1..Len(optimizedPaths), b \in 1..Len(optimizedPaths) :
              (a # b /\ Len(optimizedPaths[a]) > 0 /\ Len(optimizedPaths[b]) > 0) =>
                  smallestPairing(optimizedPaths[a], optimizedPaths[b])
                      > options.mergeThreshold
        /\ mergePaths(optimizedPaths, options.mergeThreshold) = optimizedPaths

\* C26 witness: the merge pass has joined three paths or more into one and
\* left another path apart.
C26_Witness ==
    /\ opc = "step2"
    /\ options.enablePathMerging
    /\ Len(optimizedPaths) >= 2
    /\ \E k \in 1..Len(optimizedPaths) : Len(optimizedPaths[k]) >= 6


\* b holds the entries of a, each as often as a holds it, in some order.
IsPermutation(a, b) ==
    /\ Len(a) = Len(b)
    /\ \A k \in 1..Len(a) :
          Cardinality({j \in 1..Len(b) : b[j] = a[k]})
              = Cardinality({j \in 1..Len(a) : a[j] = a[k]})

\* The working list and the returned list are reorderings of the input.
reordersOnly ==
    ~options.enablePathMerging =>
        /\ opc \in {"step2", "step3", "done", "again"} =>
              IsPermutation(paths, optimizedPaths)
        /\ opc \in {"done", "again"} => IsPermutation(paths, result.paths)

\* No step writes to the caller's array.
inputUntouched == ~options.enablePathMerging => paths' = paths

\* C27: with enablePathMerging false, optimizePaths returns a permutation of
\* the input list: as many paths, each with its point sequence unchanged (never
\* reversed, split or modified), and the caller's array is left as it was.
C27_PermutationOfInput == []reordersOnly /\ [][inputUntouched]_vars

\* A call without merging that returned three or more paths in another order.
C27_Witness ==
    /\ opc = "done"
    /\ ~options.enablePathMerging
    /\ Len(paths) >= 3
    /\ result.paths # paths
    /\ \E k \in 1..Len(paths) : Len(paths[k]) = 0


(***************************************************************************)
(* Properties of the stitching order of traceCenterlines                   *)
(***************************************************************************)
\* The runs the nested for loops have passed: every run of a row above the
\* loop's position, and the runs of its row before it.
passed(id) ==
    \/ id[1] < seedPos[1]
    \/ id[1] = seedPos[1] /\ id[2] < seedPos[2]

\* While stitching, every run the loops have passed is used.
rowsAboveUsed ==
    cpc = "stitch" =>
        \A id \in RunIds :
            (id[2] <= Len(segmentsByRow[id[1] + 1]) /\ passed(id))
                => segAt(segmentsByRow, id).used

\* The path an iteration builds starts at the iteration's seed.
startsAtSeed ==
    /\ allPaths' # allPaths => allPaths'[Len(allPaths')][1] = seedPos
    /\ droppedPaths' # droppedPaths => droppedPaths'[Len(droppedPaths')][1] = seedPos

\* The kept paths and the point paths returned: three runs or more, one per
\* row, on consecutive rows downwards.
consecutiveRows ==
    /\ \A k \in 1..Len(allPaths) :
          /\ Len(allPaths[k]) >= 3
          /\ \A j \in 1..(Len(allPaths[k]) - 1) :
                allPaths[k][j + 1][1] = allPaths[k][j][1] + 1
    /\ cpc = "done" =>
          /\ Len(centerlines) = Len(allPaths)
          /\ \A k \in 1..Len(centerlines) :
                /\ Len(centerlines[k]) >= 3
                /\ \A j \in 1..(Len(centerlines[k]) - 1) :
                      centerlines[k][j + 1].y = centerlines[k][j].y + 1

\* C28: when traceCenterlines selects a seed in row y, every run of the rows
\* above y is already used, so the upward trace prepends nothing: every path
\* starts at its seed, and every output path has 3 points or more, on strictly
\* consecutive rows in ascending order.
C28_SeedFirstRowsAscending ==
    []rowsAboveUsed /\ []consecutiveRows /\ [][startsAtSeed]_vars

\* The loop is about to select a seed below the first row, and a path is kept.
C28_Witness ==
    /\ cpc = "stitch"
    /\ seedPos[1] > 0
    /\ seedPos[1] < canvas.height
    /\ ~segAt(segmentsByRow, seedPos).used
    /\ Len(allPaths) >= 1


(***************************************************************************)
(* Properties of processWithCurves                                         *)
(***************************************************************************)
\* The number of segments pushed for the first k paths.
RECURSIVE emittedUpTo(_)
emittedUpTo(k) == IF k = 0 THEN 0 ELSE Len(emitted[k]) + emittedUpTo(k - 1)

\* With curve fitting, a path of fewer than 3 points gives no segment.
shortPathsGiveNothing ==
    advancedOptions.enableCurveFitting =>
        /\ \A k \in 1..Len(emitted) : Len(curvePaths[k]) < 3 => emitted[k] = <<>>
        /\ Len(allCurves) = emittedUpTo(Len(emitted))
        /\ wpc = "done" => Len(emitted) = Len(curvePaths)

\* Without it, a path of 2 points or more gives one segment per pair of
\* consecutive points, from the one to the other, and a shorter path none.
oneSegmentPerPair ==
    (~advancedOptions.enableCurveFitting /\ wpc = "done") =>
        /\ Len(emitted) = Len(curvePaths)
        /\ Len(allCurves) = emittedUpTo(Len(emitted))
        /\ \A k \in 1..Len(curvePaths) :
              /\ Len(emitted[k]) = Max(Len(curvePaths[k]) - 1, 0)
              /\ \A i \in 1..Len(emitted[k]) :
                    /\ emitted[k][i].start = curvePaths[k][i]
                    /\ emitted[k][i].end = curvePaths[k][i + 1]
                    /\ \E n \in 1..Len(allCurves) : allCurves[n] = emitted[k][i]

\* C29: fitCurves returns [] for fewer than 3 points, so processWithCurves with
\* enableCurveFitting true emits no curve segment for a 2-point path, whereas
\* with enableCurveFitting false it emits exactly one segment per pair of
\* consecutive points of every path with 2 points or more.
C29_TwoPointPaths == shortPathsGiveNothing /\ oneSegmentPerPair

\* A call with curve fitting returned curves for a list that holds a path of
\* 2 points, for which it pushed none.
C29_Witness ==
    /\ wpc = "done"
    /\ advancedOptions.enableCurveFitting
    /\ Len(allCurves) >= 1
    /\ \E k \in 1..Len(curvePaths) : Len(curvePaths[k]) = 2 /\ emitted[k] = <<>>


(***************************************************************************)
(* Properties of the ImageProcessor component                              *)
(***************************************************************************)
\* C30: after processAndPreview or generateAndDownloadGCode has set
\* isProcessing (and so disabled both buttons), isProcessing is eventually
\* reset to false in every execution, the one where process throws inside the
\* deferred callback included.
C30_ProcessingEventuallyReset == isProcessing ~> ~isProcessing

====
